---- MODULE Spec2Model ----
(***************************************************************************)
(* Model of the boolean inverted-index engine of ir_system: the SPIMI      *)
(* indexer (add_token / flush_block / merge_blocks), the PostingList with  *)
(* skip pointers, the boolean query parser and evaluator, and the three    *)
(* dictionary compressors.                                                  *)
(*                                                                         *)
(* Strings are sequences of one-character strings, compared by code point  *)
(* as Python compares str; files are sequences of lines (no string of the  *)
(* model holds a newline).                                                  *)
(***************************************************************************)
EXTENDS Naturals, Integers, Sequences, FiniteSets, TLC

VARIABLES
    pc,              \* position in that subsystem's run
    \* ---- SPIMIIndexer fields and the files it owns
    block_size, dictionary, token_count, block_counter, flush_times,
    block_files,     \* temp_blocks/block_{i}.txt that exist: i -> lines
    output_file,     \* the final index file: <<>> when absent, else <<lines>>
    stream,          \* history: the (term, docId) pairs passed to add_token
    merged_blocks,   \* history: the block files merge_blocks opened
    temp_dir,        \* whether the temp_blocks directory exists
    calls,           \* history: the indexer methods called, in order
    dict_file,       \* the compressed-dictionary sidecar: <<>> or <<kind, JSON value>>
    ix_compress,     \* args.compress as index_command read it: <<>> for None
    ix_exit,         \* index_command's exit code: <<>> before it returns
    \* ---- PostingList run
    pl_in,           \* the constructor arguments of the two lists
    pl_a, pl_b,      \* the two constructed PostingList objects
    pl_result,       \* what intersection returned
    \* ---- query run
    q_file,          \* the index file that is loaded
    q_skip,          \* --skips
    q_index,         \* the loaded mapping term -> set or PostingList
    q_query,         \* the raw query tokens (the query string, split)
    q_tokens,        \* tokenize_query's result
    q_postfix,       \* to_postfix's result
    q_result,        \* evaluate_postfix's result
    q_meaning,       \* history: <<truth table>> of a query drawn from the grammar
    q_nltk,          \* whether nltk finds corpora/stopwords in this installation
    q_stack,         \* history: the evaluator's stack when its loop ended
    q_exit,          \* search_command's exit code: <<>> before it returns
    fs_index,        \* the index file on disk: <<>> when absent, else <<lines>>
    fs_skips,        \* the "{index}.skips" sidecar: <<>> when absent, else <<pickle>>
    \* ---- compressor run
    c_terms,         \* the term list given to build/compress
    c_terms2,        \* the term list given to a second build/compress
    c_bsize,         \* BlockingCompressor.block_size
    c_string,        \* DictionaryAsAStringCompressor fields
    c_block,         \* BlockingCompressor fields
    c_front,         \* FrontCodingCompressor fields
    c_file,          \* the file each compressor saved: <<>> or <<JSON value>>
    c_loaded         \* the fresh instance that loaded each file: <<>> or <<object>>

ixvars == <<block_size, dictionary, token_count, block_counter, flush_times,
            block_files, output_file, stream, merged_blocks, temp_dir, calls,
            dict_file, ix_compress, ix_exit>>
plvars == <<pl_in, pl_a, pl_b, pl_result>>
qvars  == <<q_file, q_skip, q_index, q_query, q_tokens, q_postfix, q_result,
           q_meaning, q_nltk, q_stack, q_exit, fs_index, fs_skips>>
cvars  == <<c_terms, c_terms2, c_bsize, c_string, c_block, c_front, c_file, c_loaded>>
vars   == <<pc, ixvars, plvars, qvars, cvars>>

(***************************************************************************)
(* Bounds of the model.                                                    *)
(***************************************************************************)
MaxTokens    == 3    \* add_token calls in one build
MaxBlockSize == 3    \* block_size ranges over 1..MaxBlockSize
MaxFlushCalls == 2   \* direct flush_block calls of a caller other than index_command
MaxLen       == 3    \* length of a list given to PostingList
MaxSkip      == 2    \* skip_size ranges over None and 0..MaxSkip
MaxQueryLen  == 6    \* tokens of a query drawn from the grammar
MaxRun       == 6    \* length of a list whose skip pointers are examined
MaxRebuild   == 2    \* length of the term lists of a compressor that is built twice
MaxRawLen    == 3    \* tokens of a query that need not be well formed
MaxTerms     == 3    \* length of a term list given to a compressor
MaxCBlock    == 2    \* BlockingCompressor block sizes 1..MaxCBlock, and the default

(***************************************************************************)
(* Python str: comparison, sorted, join, split, strip.                     *)
(***************************************************************************)
Ord(c) ==
    CASE c = "\t" -> 9
      [] c = " "  -> 32
      [] c = "("  -> 40
      [] c = ")"  -> 41
      [] c = ","  -> 44
      [] c = "1"  -> 49
      [] c = "A"  -> 65
      [] c = "B"  -> 66
      [] c = "C"  -> 67
      [] c = "D"  -> 68
      [] c = "E"  -> 69
      [] c = "N"  -> 78
      [] c = "O"  -> 79
      [] c = "R"  -> 82
      [] c = "T"  -> 84
      [] c = "a"  -> 97
      [] c = "b"  -> 98
      [] c = "c"  -> 99
      [] c = "d"  -> 100
      [] c = "e"  -> 101
      [] c = "n"  -> 110
      [] c = "o"  -> 111
      [] c = "r"  -> 114
      [] c = "t"  -> 116

RECURSIVE StrLess(_, _)
StrLess(s, t) ==
    IF t = <<>> THEN FALSE
    ELSE IF s = <<>> THEN TRUE
    ELSE IF Ord(Head(s)) # Ord(Head(t)) THEN Ord(Head(s)) < Ord(Head(t))
    ELSE StrLess(Tail(s), Tail(t))

StrLeq(s, t) == s = t \/ StrLess(s, t)

RECURSIVE InsertSorted(_, _)
InsertSorted(x, seq) ==
    IF seq = <<>> THEN <<x>>
    ELSE IF StrLess(x, Head(seq)) THEN <<x>> \o seq
    ELSE <<Head(seq)>> \o InsertSorted(x, Tail(seq))

\* sorted(list): the elements of the list in ascending order, repeats kept
RECURSIVE SortedList(_)
SortedList(seq) ==
    IF seq = <<>> THEN <<>>
    ELSE InsertSorted(Head(seq), SortedList(Tail(seq)))

\* sorted(set)
RECURSIVE SortedSet(_)
SortedSet(S) ==
    IF S = {} THEN <<>>
    ELSE LET m == CHOOSE x \in S : \A y \in S : StrLeq(x, y)
         IN  <<m>> \o SortedSet(S \ {m})

\* sep.join(parts)
RECURSIVE Join(_, _)
Join(parts, sep) ==
    IF parts = <<>> THEN <<>>
    ELSE IF Len(parts) = 1 THEN parts[1]
    ELSE parts[1] \o sep \o Join(Tail(parts), sep)

\* s.split(c) for a one-character separator c
RECURSIVE Split(_, _)
Split(s, c) ==
    IF \A i \in 1..Len(s) : s[i] # c THEN <<s>>
    ELSE LET k == CHOOSE i \in 1..Len(s) :
                      s[i] = c /\ \A j \in 1..(i-1) : s[j] # c
         IN  <<SubSeq(s, 1, k-1)>> \o Split(SubSeq(s, k+1, Len(s)), c)

IsSpace(c) == c \in {" ", "\t"}

\* s.strip()
RECURSIVE Strip(_)
Strip(s) ==
    IF s = <<>> THEN s
    ELSE IF IsSpace(s[1]) THEN Strip(Tail(s))
    ELSE IF IsSpace(s[Len(s)]) THEN Strip(SubSeq(s, 1, Len(s)-1))
    ELSE s

SeqToSet(seq) == {seq[i] : i \in 1..Len(seq)}

(***************************************************************************)
(* The inputs of the indexer: terms as the tokenizer emits them, and       *)
(* docIds, which index_command takes from the file paths.                  *)
(***************************************************************************)
Terms  == {<<"b">>, <<"c">>}
DocIds == {<<"d">>, <<"e">>, <<"e", ",", "d">>, <<"d", " ">>}

(***************************************************************************)
(* SPIMIIndexer.  An indexer object is a record of its fields and of the   *)
(* files it owns; flush_times is modelled by its length.  The step that    *)
(* ends index_command, and the specifications of the indexer, follow the   *)
(* compressors, which that step uses.                                      *)
(***************************************************************************)
EmptyDict == [t \in {} |-> {}]
NoFiles   == [i \in {} |-> <<>>]
NoFile    == <<>>

NewIndexer(bs) ==
    [block_size |-> bs, dictionary |-> EmptyDict, token_count |-> 0,
     block_counter |-> 0, flush_times |-> 0,
     block_files |-> NoFiles, output_file |-> NoFile, merged_blocks |-> <<>>,
     temp_dir |-> TRUE]

\* f"{term}\t{postings_str}\n" with postings_str = ','.join(sorted(postings))
FormatLine(term, postings) ==
    term \o <<"\t">> \o Join(SortedSet(postings), <<",">>)

\* the lines flush_block writes for a dictionary
BlockLines(dict) ==
    LET sorted_terms == SortedSet(DOMAIN dict)
    IN  [k \in 1..Len(sorted_terms) |->
            FormatLine(sorted_terms[k], dict[sorted_terms[k]])]

\* mutant of flush_block: an empty dictionary is written as an empty block
flush_block_WritesEmpty(ix) ==
    [ix EXCEPT
        !.block_files = [i \in DOMAIN ix.block_files \cup {ix.block_counter} |->
                            IF i = ix.block_counter
                            THEN BlockLines(ix.dictionary)
                            ELSE ix.block_files[i]],
        !.dictionary = EmptyDict,
        !.token_count = 0,
        !.block_counter = ix.block_counter + 1,
        !.flush_times = ix.flush_times + 1]

flush_block(ix) ==
    IF DOMAIN ix.dictionary = {} THEN ix
    ELSE [ix EXCEPT
            !.block_files = [i \in DOMAIN ix.block_files \cup {ix.block_counter} |->
                                IF i = ix.block_counter
                                THEN BlockLines(ix.dictionary)
                                ELSE ix.block_files[i]],
            !.dictionary = EmptyDict,
            !.token_count = 0,
            !.block_counter = ix.block_counter + 1,
            !.flush_times = ix.flush_times + 1]

\* mutant of add_token: the block is flushed one call late
add_token_FlushLate(ix, token, doc_id) ==
    LET d    == ix.dictionary
        d1   == [t \in DOMAIN d \cup {token} |->
                    IF t = token
                    THEN (IF token \in DOMAIN d THEN d[token] ELSE {}) \cup {doc_id}
                    ELSE d[t]]
        ix1  == [ix EXCEPT !.dictionary = d1, !.token_count = ix.token_count + 1]
    IN  IF ix1.token_count > ix1.block_size THEN flush_block(ix1) ELSE ix1

\* mutant of add_token: only a new posting is counted
add_token_CountsNewPostings(ix, token, doc_id) ==
    LET d    == ix.dictionary
        new  == ~(token \in DOMAIN d /\ doc_id \in d[token])
        d1   == [t \in DOMAIN d \cup {token} |->
                    IF t = token
                    THEN (IF token \in DOMAIN d THEN d[token] ELSE {}) \cup {doc_id}
                    ELSE d[t]]
        ix1  == [ix EXCEPT !.dictionary = d1,
                           !.token_count = ix.token_count + (IF new THEN 1 ELSE 0)]
    IN  IF ix1.token_count >= ix1.block_size THEN flush_block(ix1) ELSE ix1

add_token(ix, token, doc_id) ==
    LET d    == ix.dictionary
        d1   == [t \in DOMAIN d \cup {token} |->
                    IF t = token
                    THEN (IF token \in DOMAIN d THEN d[token] ELSE {}) \cup {doc_id}
                    ELSE d[t]]
        ix1  == [ix EXCEPT !.dictionary = d1, !.token_count = ix.token_count + 1]
    IN  IF ix1.token_count >= ix1.block_size THEN flush_block(ix1) ELSE ix1

\* f.readline().strip() at line number p of a file
ReadLine(file, p) == IF p <= Len(file) THEN Strip(file[p]) ELSE <<>>

\* the heap entry pushed for a line read from block i, if any
HeapEntry(line, i) ==
    LET parts == Split(line, "\t")
    IN  IF line # <<>> /\ Len(parts) >= 2 THEN {<<parts[1], parts[2], i>>} ELSE {}

\* Python's tuple order on (term, postings, block_index)
HeapLess(e, f) ==
    \/ StrLess(e[1], f[1])
    \/ e[1] = f[1] /\ StrLess(e[2], f[2])
    \/ e[1] = f[1] /\ e[2] = f[2] /\ e[3] < f[3]

\* mutant of HeapPop: the entry of the lowest block comes first, whatever its term
HeapPop_ByBlockIndex(heap) == CHOOSE e \in heap : \A f \in heap \ {e} : e[3] < f[3]

\* mutant of HeapPop: a max-heap
HeapPop_Max(heap) == CHOOSE e \in heap : \A f \in heap \ {e} : HeapLess(f, e)

HeapPop(heap) == CHOOSE e \in heap : \A f \in heap \ {e} : HeapLess(e, f)

\* mutant of Accumulate: the postings of the previous pops are not kept
Accumulate_NoCarry(newterm, current_postings, postings) ==
    SeqToSet(Split(postings, ","))

\* current_postings after a pop: reset when the term is new, then
\* "for doc_id in postings.split(','): current_postings.add(doc_id)"
Accumulate(newterm, current_postings, postings) ==
    (IF newterm THEN {} ELSE current_postings) \cup SeqToSet(Split(postings, ","))

\* the while-loop of merge_blocks and the write of the last term;
\* current_term is <<>> for None and <<term>> otherwise
RECURSIVE MergeLoop(_, _, _, _, _, _)
MergeLoop(handles, heap, pos, current_term, current_postings, out) ==
    IF heap = {}
    THEN IF current_term # <<>>
         THEN Append(out, FormatLine(current_term[1], current_postings))
         ELSE out
    ELSE LET e         == HeapPop(heap)
             term      == e[1]
             postings  == e[2]
             block_idx == e[3]
             newterm   == current_term # <<>> /\ current_term[1] # term
             out1      == IF newterm
                          THEN Append(out, FormatLine(current_term[1], current_postings))
                          ELSE out
             post1     == Accumulate(newterm, current_postings, postings)
             line      == ReadLine(handles[block_idx + 1], pos[block_idx + 1])
         IN  MergeLoop(handles,
                       (heap \ {e}) \cup HeapEntry(line, block_idx),
                       [pos EXCEPT ![block_idx + 1] = @ + 1],
                       <<term>>, post1, out1)

\* the output lines of the k-way merge of the opened block files
MergeOutput(handles) ==
    LET heap0 == UNION {HeapEntry(ReadLine(handles[i], 1), i - 1) : i \in 1..Len(handles)}
    IN  MergeLoop(handles, heap0, [i \in 1..Len(handles) |-> 2], <<>>, {}, <<>>)

\* the block files merge_blocks finds, in block order
RECURSIVE ExistingBlocks(_, _)
ExistingBlocks(fs, n) ==
    IF n = 0 THEN <<>>
    ELSE ExistingBlocks(fs, n - 1) \o
         (IF (n - 1) \in DOMAIN fs THEN <<n - 1>> ELSE <<>>)

\* mutant of merge_blocks: a build without blocks is merged like any other
merge_blocks_NoEarlyReturn(ix) ==
    LET found   == ExistingBlocks(ix.block_files, ix.block_counter)
        handles == [k \in 1..Len(found) |-> ix.block_files[found[k]]]
    IN  [ix EXCEPT
            !.output_file = <<MergeOutput(handles)>>,
            !.merged_blocks = handles,
            !.block_files = [i \in DOMAIN ix.block_files \ SeqToSet(found) |->
                                ix.block_files[i]],
            !.temp_dir = (DOMAIN ix.block_files \ SeqToSet(found) # {})]

\* mutant of merge_blocks: the block files are not removed
merge_blocks_KeepsBlocks(ix) ==
    LET found   == ExistingBlocks(ix.block_files, ix.block_counter)
        handles == [k \in 1..Len(found) |-> ix.block_files[found[k]]]
    IN  IF ix.block_counter = 0 \/ found = <<>> THEN ix
        ELSE [ix EXCEPT
                !.output_file = <<MergeOutput(handles)>>,
                !.merged_blocks = handles,
                !.temp_dir = TRUE]

merge_blocks(ix) ==
    LET found   == ExistingBlocks(ix.block_files, ix.block_counter)
        handles == [k \in 1..Len(found) |-> ix.block_files[found[k]]]
    IN  IF ix.block_counter = 0 \/ found = <<>> THEN ix
        ELSE [ix EXCEPT
                !.output_file = <<MergeOutput(handles)>>,
                !.merged_blocks = handles,
                !.block_files = [i \in DOMAIN ix.block_files \ SeqToSet(found) |->
                                    ix.block_files[i]],
                \* os.rmdir(self.temp_dir) fails on a directory that is not empty
                !.temp_dir = (DOMAIN ix.block_files \ SeqToSet(found) # {})]

(***************************************************************************)
(* The indexing run of index_command: a constructor, a stream of add_token *)
(* calls, the terminal flush, the merge.                                   *)
(***************************************************************************)
Self ==
    [block_size |-> block_size, dictionary |-> dictionary,
     token_count |-> token_count, block_counter |-> block_counter,
     flush_times |-> flush_times, block_files |-> block_files,
     output_file |-> output_file, merged_blocks |-> merged_blocks,
     temp_dir |-> temp_dir]

Becomes(ix) ==
    /\ block_size' = ix.block_size
    /\ dictionary' = ix.dictionary
    /\ token_count' = ix.token_count
    /\ block_counter' = ix.block_counter
    /\ flush_times' = ix.flush_times
    /\ block_files' = ix.block_files
    /\ output_file' = ix.output_file
    /\ merged_blocks' = ix.merged_blocks
    /\ temp_dir' = ix.temp_dir

IdlePL == /\ pl_in = <<>> /\ pl_a = <<>> /\ pl_b = <<>> /\ pl_result = {}
IdleQ  == /\ q_file = <<>> /\ q_skip = 0 /\ q_index = <<>> /\ q_query = <<>>
          /\ q_tokens = <<>> /\ q_postfix = <<>> /\ q_result = {}
          /\ q_meaning = <<>> /\ q_nltk = FALSE /\ q_stack = <<>>
          /\ q_exit = <<>> /\ fs_index = <<>> /\ fs_skips = <<>>
IdleC  == /\ c_terms = <<>> /\ c_terms2 = <<>> /\ c_bsize = 0 /\ c_string = <<>> /\ c_block = <<>>
          /\ c_front = <<>> /\ c_file = <<>> /\ c_loaded = <<>>
IdleIx == /\ block_size = 0 /\ dictionary = EmptyDict /\ token_count = 0
          /\ block_counter = 0 /\ flush_times = 0 /\ block_files = NoFiles
          /\ output_file = NoFile /\ stream = <<>> /\ merged_blocks = <<>>
          /\ temp_dir = FALSE /\ calls = <<>> /\ dict_file = <<>>
          /\ ix_compress = <<>> /\ ix_exit = <<>>

Init ==
    /\ pc = "building"
    /\ \E bs \in 1..MaxBlockSize :
          /\ block_size = bs
          /\ dictionary = NewIndexer(bs).dictionary
          /\ token_count = 0
          /\ block_counter = 0
          /\ flush_times = 0
          /\ block_files = NoFiles
          /\ output_file = NoFile
          /\ merged_blocks = <<>>
          /\ temp_dir = NewIndexer(bs).temp_dir
    /\ stream = <<>>
    /\ calls = <<>>
    /\ dict_file = <<>>
    /\ ix_compress = <<>>
    /\ ix_exit = <<>>
    /\ IdlePL /\ IdleQ /\ IdleC

AddToken ==
    /\ pc = "building"
    /\ Len(stream) < MaxTokens
    /\ \E token \in Terms, doc_id \in DocIds :
          /\ Becomes(add_token(Self, token, doc_id))
          /\ stream' = Append(stream, <<token, doc_id>>)
    /\ calls' = Append(calls, "add_token")
    /\ UNCHANGED <<pc, dict_file, ix_compress, ix_exit, plvars, qvars, cvars>>

\* a caller other than index_command calls flush_block at any time
FlushBlock ==
    /\ pc = "building"
    /\ Cardinality({k \in 1..Len(calls) : calls[k] = "flush_block"}) < MaxFlushCalls
    /\ Becomes(flush_block(Self))
    /\ calls' = Append(calls, "flush_block")
    /\ UNCHANGED <<pc, stream, dict_file, ix_compress, ix_exit, plvars, qvars, cvars>>

\* index_command: if spimi_indexer.token_count > 0: spimi_indexer.flush_block()
TerminalFlush ==
    /\ pc = "building"
    /\ Becomes(IF token_count > 0 THEN flush_block(Self) ELSE Self)
    /\ calls' = IF token_count > 0 THEN Append(calls, "flush_block") ELSE calls
    /\ pc' = "flushed"
    /\ UNCHANGED <<stream, dict_file, ix_compress, ix_exit, plvars, qvars, cvars>>

MergeBlocks ==
    /\ pc = "flushed"
    /\ Becomes(merge_blocks(Self))
    /\ calls' = Append(calls, "merge_blocks")
    /\ pc' = "merged"
    /\ UNCHANGED <<stream, dict_file, ix_compress, ix_exit, plvars, qvars, cvars>>

(***************************************************************************)
(* A whole build as index_command runs it, as a function of the stream.    *)
(***************************************************************************)
RECURSIVE AddAll(_, _)
AddAll(ix, pairs) ==
    IF pairs = <<>> THEN ix
    ELSE AddAll(add_token(ix, Head(pairs)[1], Head(pairs)[2]), Tail(pairs))

BuildIndex(pairs, bs) ==
    LET ix == AddAll(NewIndexer(bs), pairs)
    IN  merge_blocks(IF ix.token_count > 0 THEN flush_block(ix) ELSE ix)

(***************************************************************************)
(* Reading an index or block file back, as load_inverted_index does.       *)
(***************************************************************************)
\* parts = line.strip().split('\t'); lines with fewer than 2 parts are skipped
ParseLine(line) ==
    LET parts == Split(Strip(line), "\t")
    IN  IF Len(parts) < 2 THEN <<>>
        ELSE <<[term |-> parts[1], posting_list |-> Split(parts[2], ",")]>>

RECURSIVE ParseFile(_)
ParseFile(file) ==
    IF file = <<>> THEN <<>> ELSE ParseLine(Head(file)) \o ParseFile(Tail(file))

FileTerms(file) ==
    LET e == ParseFile(file) IN [k \in 1..Len(e) |-> e[k].term]

FilePairs(file) ==
    LET e == ParseFile(file)
    IN  UNION {{<<e[k].term, e[k].posting_list[j]>> : j \in 1..Len(e[k].posting_list)}
                  : k \in 1..Len(e)}

StrictlyIncreasing(seq) ==
    \A k \in 1..(Len(seq) - 1) : StrLess(seq[k], seq[k + 1])

StreamTerms == {stream[k][1] : k \in 1..Len(stream)}
StreamDocs(term) == {stream[k][2] : k \in {j \in 1..Len(stream) : stream[j][1] = term}}

(***************************************************************************)
(* Claims about the build.                                                 *)
(***************************************************************************)
Built == pc = "merged" /\ stream # <<>>

\* C1 (as claimed): after the terminal flush and the merge of a non-empty
\* stream, the final index file has exactly one line per distinct term added,
\* and the postings of that line are exactly the docIds added with that term.
C1_FinalIndexIsTheAddedPairs ==
    Built =>
        /\ output_file # NoFile
        /\ LET e == ParseFile(output_file[1])
           IN  /\ Len(e) = Len(output_file[1])
               /\ Len(e) = Cardinality(StreamTerms)
               /\ {e[k].term : k \in 1..Len(e)} = StreamTerms
               /\ \A k \in 1..Len(e) :
                     /\ SeqToSet(e[k].posting_list) = StreamDocs(e[k].term)
                     /\ Len(e[k].posting_list) = Cardinality(StreamDocs(e[k].term))

\* C2 (as claimed): the final index file does not depend on the block size:
\* the build of the same stream with any other block size, up to one larger
\* than the stream, writes the same file.
C2_BlockSizeIndependent ==
    Built =>
        \A bs \in 1..(MaxTokens + 1) :
            BuildIndex(stream, bs).output_file = output_file

\* C3: after merge_blocks the (term, docId) pairs of the final index are the
\* union of the pairs of the merged block files.
C3_MergeCompleteness ==
    (pc = "merged" /\ output_file # NoFile) =>
        FilePairs(output_file[1]) =
            UNION {FilePairs(merged_blocks[i]) : i \in 1..Len(merged_blocks)}

\* C3 witness: a merge of two blocks that hold the same term with different
\* postings, the first block holding a second line after it.
C3_Witness ==
    /\ pc = "merged" /\ output_file # NoFile
    /\ Len(merged_blocks) >= 2
    /\ Len(merged_blocks[1]) >= 2
    /\ \E p \in FilePairs(merged_blocks[1]), q \in FilePairs(merged_blocks[2]) :
          p[1] = q[1] /\ p[2] # q[2]

\* C8: every block file and the final index have strictly increasing terms.
C8_SortedTerms ==
    /\ \A i \in DOMAIN block_files : StrictlyIncreasing(FileTerms(block_files[i]))
    /\ \A i \in 1..Len(merged_blocks) : StrictlyIncreasing(FileTerms(merged_blocks[i]))
    /\ output_file # NoFile => StrictlyIncreasing(FileTerms(output_file[1]))

\* C8 witness: a final index of two lines, merged from two blocks that both
\* hold the same term.
C8_Witness ==
    /\ pc = "merged" /\ output_file # NoFile
    /\ Len(output_file[1]) >= 2
    /\ Len(merged_blocks) >= 2
    /\ \E t \in Terms : \A i \in 1..2 : t \in SeqToSet(FileTerms(merged_blocks[i]))

\* C9 (as claimed): every line of every block file and of the final index has
\* strictly increasing posting ids.
C9_SortedPostings ==
    LET Sorted(file) ==
            \A k \in 1..Len(ParseFile(file)) :
                StrictlyIncreasing(ParseFile(file)[k].posting_list)
    IN  /\ \A i \in DOMAIN block_files : Sorted(block_files[i])
        /\ \A i \in 1..Len(merged_blocks) : Sorted(merged_blocks[i])
        /\ output_file # NoFile => Sorted(output_file[1])

\* the orders in which n blocks can be numbered
BlockOrders(n) == {f \in [1..n -> 1..n] : \A i, j \in 1..n : f[i] = f[j] => i = j}

\* C19: the final index is a function of the multiset of the merged blocks:
\* storing the same block contents under any other numbering of the blocks
\* gives the same output file.
C19_MergeIgnoresBlockOrder ==
    (pc = "merged" /\ output_file # NoFile) =>
        \A f \in BlockOrders(Len(merged_blocks)) :
            MergeOutput([k \in 1..Len(merged_blocks) |-> merged_blocks[f[k]]])
                = output_file[1]

\* C19 witness: three blocks were merged, two of them with the same line (the
\* heap breaks the tie on the block number) and one with the same term and
\* other postings.
C19_Witness ==
    /\ pc = "merged" /\ output_file # NoFile
    /\ Len(merged_blocks) = 3
    /\ \E i, j, k \in 1..3 :
          /\ i # j /\ merged_blocks[i] = merged_blocks[j]
          /\ merged_blocks[k] # merged_blocks[i]
          /\ FileTerms(merged_blocks[k]) = FileTerms(merged_blocks[i])

\* C20: after merge_blocks returns for a build that flushed at least one block,
\* none of its block files block_0 .. block_{block_counter-1} exists; a block
\* file exists only from its flush to the end of the merge.
C20_BlockFilesRemoved ==
    /\ (pc = "merged" /\ flush_times >= 1) =>
          \A i \in 0..(block_counter - 1) : i \notin DOMAIN block_files
    /\ \A i \in DOMAIN block_files : i < block_counter /\ pc # "merged"

\* C20 witness: a build that flushed two blocks or more was merged, the merge
\* read them, and no block file is left.
C20_Witness ==
    /\ pc = "merged" /\ flush_times >= 2 /\ block_counter >= 2
    /\ Len(merged_blocks) = block_counter
    /\ block_files = NoFiles

\* the number of docIds the in-memory dictionary holds, summed over its terms
RECURSIVE DictTotal(_)
DictTotal(dict) ==
    IF DOMAIN dict = {} THEN 0
    ELSE LET t == CHOOSE u \in DOMAIN dict : TRUE
         IN  Cardinality(dict[t]) + DictTotal([u \in DOMAIN dict \ {t} |-> dict[u]])

\* C21: with block_size >= 1, whenever add_token has returned, token_count is
\* below block_size and the dictionary holds at most token_count docIds, so it
\* never holds the result of more than block_size add_token calls.
C21_DictionaryBounded ==
    block_size >= 1 =>
        /\ token_count < block_size
        /\ DictTotal(dictionary) <= token_count

\* C21 witness: after a flush, add_token refilled the dictionary up to one
\* call short of the block size.
C21_Witness ==
    /\ pc = "building" /\ flush_times >= 1
    /\ calls # <<>> /\ calls[Len(calls)] = "add_token"
    /\ token_count = block_size - 1
    /\ token_count >= 1
    /\ DictTotal(dictionary) = token_count

\* ceil(n / d)
Ceil(n, d) == (n + d - 1) \div d

\* C23: every add_token call counts.  A call that brings token_count to
\* block_size writes the one file block_{k}, k the block_counter before the
\* call, and returns with an empty dictionary, token_count 0 and block_counter
\* k + 1; any other call writes no file, adds one to token_count and leaves
\* block_counter alone.  After the terminal flush of N calls there are
\* ceil(N / block_size) blocks.
C23_OneBlockPerBlockSizeCalls ==
    /\ [][calls' = Append(calls, "add_token") =>
            IF token_count + 1 >= block_size
            THEN /\ block_counter \notin DOMAIN block_files
                 /\ DOMAIN block_files' = DOMAIN block_files \cup {block_counter}
                 /\ \A i \in DOMAIN block_files : block_files'[i] = block_files[i]
                 /\ dictionary' = EmptyDict
                 /\ token_count' = 0
                 /\ block_counter' = block_counter + 1
            ELSE /\ block_files' = block_files
                 /\ token_count' = token_count + 1
                 /\ block_counter' = block_counter]_vars
    /\ [](pc \in {"flushed", "merged", "done"} =>
              block_counter = Ceil(Len(stream), block_size))

\* C23 witness: three add_token calls with block_size 2, the first two with
\* the same (term, docId) pair, and the terminal flush: two blocks.
C23_Witness ==
    /\ pc = "flushed" /\ block_size = 2
    /\ Len(stream) = 3 /\ stream[1] = stream[2]
    /\ block_counter = 2
    /\ DOMAIN block_files = {0, 1}

\* C26: flush_block called on an empty dictionary writes no file and leaves
\* block_counter, token_count and flush_times as they were; every block file
\* holds a line or more, and block_counter is the number of block files
\* written.
C26_EmptyFlushIsNoOp ==
    /\ [][(calls' = Append(calls, "flush_block") /\ DOMAIN dictionary = {}) =>
            UNCHANGED <<block_files, block_counter, token_count, flush_times,
                        dictionary, output_file, temp_dir>>]_vars
    /\ [](/\ \A i \in DOMAIN block_files : Len(block_files[i]) >= 1
          /\ \A i \in 1..Len(merged_blocks) : Len(merged_blocks[i]) >= 1
          /\ block_counter = flush_times
          /\ block_counter = Cardinality(DOMAIN block_files) + Len(merged_blocks))

\* C26 witness: flush_block was called twice in a row after an add_token:
\* the second call found the dictionary empty, and one block was written.
C26_Witness ==
    /\ pc = "building" /\ Len(calls) >= 3
    /\ calls[Len(calls)] = "flush_block"
    /\ calls[Len(calls) - 1] = "flush_block"
    /\ calls[Len(calls) - 2] = "add_token"
    /\ block_size > 1
    /\ block_counter = 1 /\ flush_times = 1
    /\ DOMAIN block_files = {0}

(***************************************************************************)
(* PostingList.  An object is a record of its fields; skip_size is <<>>    *)
(* for None and <<n>> otherwise; indexes are 0-based as in the source.     *)
(* raised names the exception the constructor ended with, "" for none.     *)
(***************************************************************************)
None == <<>>

\* int(math.sqrt(n))
ISqrt(n) == CHOOSE r \in 0..n : r * r <= n /\ n < (r + 1) * (r + 1)

Max(a, b) == IF a >= b THEN a ELSE b
Min(a, b) == IF a <= b THEN a ELSE b

\* for i in range(0, n, skip): the pointers (i, min(i + skip, n - 1)), i # end
RECURSIVE SkipPointersFrom(_, _, _)
SkipPointersFrom(i, n, skip) ==
    IF i >= n THEN <<>>
    ELSE LET next_skip == Min(i + skip, n - 1)
         IN  (IF i # next_skip THEN <<<<i, next_skip>>>> ELSE <<>>)
                 \o SkipPointersFrom(i + skip, n, skip)

\* mutant of build_skip_pointers: the last pointer may end one past the list
build_skip_pointers_EndsAtLen(self) ==
    LET n    == Len(self.posting_list)
        skip == IF self.skip_size = None THEN Max(1, ISqrt(n)) ELSE self.skip_size[1]
    IN  IF skip = 0
        THEN [self EXCEPT !.raised = "ValueError"]
        ELSE [self EXCEPT !.skip_size = <<skip>>,
                          !.skip_pointers = SkipPointersFrom(0, n + 1, skip)]

build_skip_pointers(self) ==
    LET n    == Len(self.posting_list)
        skip == IF self.skip_size = None THEN Max(1, ISqrt(n)) ELSE self.skip_size[1]
    IN  IF skip = 0
        THEN [self EXCEPT !.raised = "ValueError"]
        ELSE [self EXCEPT !.skip_size = <<skip>>,
                          !.skip_pointers = SkipPointersFrom(0, n, skip)]

\* PostingList(posting_list, skip_size)
PostingList(posting_list, skip_size) ==
    LET self == [posting_list |-> SortedList(posting_list),
                 skip_size |-> skip_size, skip_pointers |-> <<>>, raised |-> ""]
    IN  IF posting_list # <<>> THEN build_skip_pointers(self) ELSE self

\* mutant of Advance: a skip pointer is followed whatever its end value
Advance_Unconditional(P, i, target) ==
    LET sp   == P.skip_pointers
        hits == {k \in 1..Len(sp) : sp[k][1] = i}
    IN  IF hits # {}
        THEN sp[CHOOSE k \in hits : \A m \in hits : k <= m][2]
        ELSE i + 1

\* the for-loop over the skip pointers of list P at position i against the
\* current element of the other list: the new position
Advance(P, i, target) ==
    LET sp   == P.skip_pointers
        hits == {k \in 1..Len(sp) :
                    sp[k][1] = i /\ StrLeq(P.posting_list[sp[k][2] + 1], target)}
    IN  IF hits # {}
        THEN sp[CHOOSE k \in hits : \A m \in hits : k <= m][2]
        ELSE i + 1

RECURSIVE IntersectLoop(_, _, _, _, _)
IntersectLoop(P, Q, i, j, result) ==
    IF ~(i < Len(P.posting_list) /\ j < Len(Q.posting_list)) THEN result
    ELSE LET x == P.posting_list[i + 1]
             y == Q.posting_list[j + 1]
         IN  IF x = y THEN IntersectLoop(P, Q, i + 1, j + 1, Append(result, x))
             ELSE IF StrLess(x, y)
             THEN IntersectLoop(P, Q, Advance(P, i, y), j, result)
             ELSE IntersectLoop(P, Q, i, Advance(Q, j, x), result)

\* self.intersection(other) for a PostingList other
intersection(self, other) ==
    IF self.posting_list = <<>> \/ other.posting_list = <<>> THEN {}
    ELSE SeqToSet(IntersectLoop(self, other, 0, 0, <<>>))

\* self.union(other), self.difference(other): other given as its elements
union(self, other_set) == SeqToSet(self.posting_list) \cup other_set
difference(self, other_set) == SeqToSet(self.posting_list) \ other_set

(***************************************************************************)
(* A PostingList run: two lists are constructed and intersected.           *)
(***************************************************************************)
PLDocs == {<<"d">>, <<"e">>, <<"d", " ">>}
Lists  == UNION {[1..n -> PLDocs] : n \in 0..MaxLen}
Skips  == {None} \cup {<<n>> : n \in 0..MaxSkip}

InitPL ==
    /\ pc = "pl_new"
    /\ pl_in \in [a : Lists, skip_a : Skips, b : Lists, skip_b : Skips]
    /\ pl_a = <<>> /\ pl_b = <<>> /\ pl_result = {}
    /\ IdleIx /\ IdleQ /\ IdleC

Construct ==
    /\ pc = "pl_new"
    /\ pl_a' = PostingList(pl_in.a, pl_in.skip_a)
    /\ pl_b' = PostingList(pl_in.b, pl_in.skip_b)
    /\ pc' = IF pl_a'.raised # "" \/ pl_b'.raised # "" THEN "pl_raised" ELSE "pl_built"
    /\ UNCHANGED <<pl_in, pl_result, ixvars, qvars, cvars>>

Intersect ==
    /\ pc = "pl_built"
    /\ pl_result' = intersection(pl_a, pl_b)
    /\ pc' = "pl_done"
    /\ UNCHANGED <<pl_in, pl_a, pl_b, ixvars, qvars, cvars>>

NextPL == Construct \/ Intersect

SpecPL == InitPL /\ [][NextPL]_vars

\* C4: intersection of two PostingLists built with any skip sizes (None or
\* positive, independently) is the intersection of the sets of their inputs.
C4_IntersectIsSetIntersection ==
    pc = "pl_done" => pl_result = SeqToSet(pl_in.a) \cap SeqToSet(pl_in.b)

\* C4 witness: an intersection in which a skip pointer was followed over an
\* element and a common element was found after it.
C4_Witness ==
    /\ pc = "pl_done"
    /\ pl_result # {}
    /\ \E k \in 1..Len(pl_a.skip_pointers) :
          /\ pl_a.skip_pointers[k][2] - pl_a.skip_pointers[k][1] >= 2
          /\ StrLess(pl_a.posting_list[pl_a.skip_pointers[k][1] + 1], pl_b.posting_list[1])
          /\ StrLeq(pl_a.posting_list[pl_a.skip_pointers[k][2] + 1], pl_b.posting_list[1])

\* C10 (as claimed): a constructed PostingList holds its elements sorted
\* ascending with no duplicates.
C10_SortedNoDuplicates ==
    pc \in {"pl_built", "pl_done"} =>
        /\ StrictlyIncreasing(pl_a.posting_list)
        /\ StrictlyIncreasing(pl_b.posting_list)

\* C22 (as claimed): constructing a PostingList from a non-empty list with
\* skip_size 0 raises nothing and gives the sorted list without skip pointers.
C22_ZeroSkipBuildsNoPointers ==
    (pc \in {"pl_built", "pl_raised", "pl_done"}
        /\ pl_in.a # <<>> /\ pl_in.skip_a = <<0>>) =>
        /\ pl_a.raised = ""
        /\ pl_a.posting_list = SortedList(pl_in.a)
        /\ pl_a.skip_pointers = <<>>

(***************************************************************************)
(* Skip pointers of longer lists: lists of distinct docIds, given in       *)
(* descending order, with every skip size up to one more than the length.  *)
(***************************************************************************)
RunDoc(k)  == [i \in 1..k |-> "d"]
RunList(n) == [k \in 1..n |-> RunDoc(n - k + 1)]
RunLists   == {RunList(n) : n \in 0..MaxRun}
RunSkips   == {None} \cup {<<s>> : s \in 0..(MaxRun + 1)}

InitSkips ==
    /\ pc = "pl_new"
    /\ pl_in \in [a : RunLists, skip_a : RunSkips, b : RunLists, skip_b : {None}]
    /\ pl_a = <<>> /\ pl_b = <<>> /\ pl_result = {}
    /\ IdleIx /\ IdleQ /\ IdleC

SpecSkips == InitSkips /\ [][NextPL]_vars

\* the skip pointers of P split the index range 0..n-1 into consecutive runs
\* of s indexes or fewer
PartitionsIntoRuns(P, s) ==
    LET n  == Len(P.posting_list)
        sp == P.skip_pointers
    IN  /\ sp # <<>>
        /\ sp[1][1] = 0
        /\ sp[Len(sp)][2] = n - 1
        /\ \A k \in 1..Len(sp) :
              /\ 0 <= sp[k][1] /\ sp[k][1] < sp[k][2] /\ sp[k][2] <= n - 1
              /\ sp[k][2] - sp[k][1] <= s
        /\ \A k \in 1..(Len(sp) - 1) : sp[k][2] = sp[k + 1][1]

\* C24: for a posting list of n >= 2 elements and a skip size s >= 1, with
\* s = max(1, floor(sqrt(n))) when none is given, the skip pointers split
\* 0..n-1 into runs of length <= s: each pointer (start, end) has
\* 0 <= start < end <= n-1 and end - start <= s, the first starts at 0, each
\* ends where the next starts, and the last ends at n-1.
C24_SkipPointersPartition ==
    (pc \in {"pl_built", "pl_done"}) =>
        /\ Len(pl_a.posting_list) >= 2 =>
              /\ pl_in.skip_a = None =>
                    pl_a.skip_size = <<Max(1, ISqrt(Len(pl_a.posting_list)))>>
              /\ pl_in.skip_a # None => pl_a.skip_size = pl_in.skip_a
              /\ PartitionsIntoRuns(pl_a, pl_a.skip_size[1])
        /\ Len(pl_b.posting_list) >= 2 =>
              /\ pl_b.skip_size = <<Max(1, ISqrt(Len(pl_b.posting_list)))>>
              /\ PartitionsIntoRuns(pl_b, pl_b.skip_size[1])

\* C24 witness: a list of six elements built without a skip size: s is 2
\* and there are three runs; and a list of five built with skip size 3: the
\* last run is shorter than the others.
C24_Witness ==
    /\ pc = "pl_built"
    /\ \/ /\ Len(pl_a.posting_list) = 6 /\ pl_in.skip_a = None
          /\ pl_a.skip_pointers = <<<<0, 2>>, <<2, 4>>, <<4, 5>>>>
          /\ pl_in.a # pl_a.posting_list
       \/ /\ Len(pl_a.posting_list) = 5 /\ pl_in.skip_a = <<3>>
          /\ pl_a.skip_pointers = <<<<0, 3>>, <<3, 4>>>>

(***************************************************************************)
(* Text processing of a query term: preprocess_text.                       *)
(***************************************************************************)
Lower(c) ==
    CASE c = "A" -> "a" [] c = "B" -> "b" [] c = "C" -> "c" [] c = "D" -> "d"
      [] c = "E" -> "e" [] c = "N" -> "n" [] c = "O" -> "o" [] c = "R" -> "r" [] c = "T" -> "t"
      [] OTHER -> c
Upper(c) ==
    CASE c = "a" -> "A" [] c = "b" -> "B" [] c = "c" -> "C" [] c = "d" -> "D"
      [] c = "e" -> "E" [] c = "n" -> "N" [] c = "o" -> "O" [] c = "r" -> "R"
      [] c = "t" -> "T" [] OTHER -> c

StrLower(s) == [k \in 1..Len(s) |-> Lower(s[k])]
StrUpper(s) == [k \in 1..Len(s) |-> Upper(s[k])]

\* \d, and [^\w\s], among the characters of the model
Digits == {"1"}
Punctuation == {"(", ")", ","}

\* re.sub of every character of a class by ''
RECURSIVE Remove(_, _)
Remove(s, class) ==
    IF s = <<>> THEN <<>>
    ELSE (IF Head(s) \in class THEN <<>> ELSE <<Head(s)>>) \o Remove(Tail(s), class)

\* STEMMER.stem(text), STEMMER being nltk's PorterStemmer (text_processing.py:22,
\* mode NLTK_EXTENSIONS).  The word is lower-cased; a word of at most two
\* letters is returned unchanged; any other word goes through the steps 1a,
\* 1b, 1c, 2, 3, 4, 5a, 5b.  Of their rules, those below are the ones whose
\* suffix the letters a b c d e n o r t can spell (every other rule has an i,
\* l, s, u, y, z, f, g, m or v in its suffix, and so has every word of the
\* pool of irregular forms).  In a list of rules the first rule whose suffix
\* matches decides: when its condition fails the word is left as it is.
Stem(word) ==
    IF Len(word) <= 2 THEN StrLower(word)
    ELSE
    LET is_consonant(ch) == ch \notin {"a", "e", "o"}
        DropLast(w, n) == SubSeq(w, 1, Len(w) - n)
        EndsWith(w, suffix) ==
            /\ Len(w) >= Len(suffix)
            /\ \A k \in 1..Len(suffix) : w[Len(w) - Len(suffix) + k] = suffix[k]
        \* the number of "vc" in the sequence of c and v of the letters
        measure(w) ==
            Cardinality({k \in 1..(Len(w) - 1) :
                            ~is_consonant(w[k]) /\ is_consonant(w[k + 1])})
        contains_vowel(w) == \E k \in 1..Len(w) : ~is_consonant(w[k])
        ends_double_consonant(w) ==
            /\ Len(w) >= 2
            /\ w[Len(w)] = w[Len(w) - 1]
            /\ is_consonant(w[Len(w)])
        \* consonant-vowel-consonant, the last none of w x y; or, for a word
        \* of two letters, vowel-consonant
        ends_cvc(w) ==
            \/ /\ Len(w) >= 3
               /\ is_consonant(w[Len(w) - 2])
               /\ ~is_consonant(w[Len(w) - 1])
               /\ is_consonant(w[Len(w)])
               /\ w[Len(w)] \notin {"w", "x", "y"}
            \/ /\ Len(w) = 2
               /\ ~is_consonant(w[1])
               /\ is_consonant(w[2])
        \* (m>0) EED -> EE;  (*v*) ED -> '', and then AT -> ATE, a double
        \* consonant other than l s z -> single, (m=1 and *o) -> E
        step1b(w) ==
            IF EndsWith(w, <<"e", "e", "d">>)
            THEN (IF measure(DropLast(w, 3)) > 0 THEN DropLast(w, 1) ELSE w)
            ELSE IF EndsWith(w, <<"e", "d">>) /\ contains_vowel(DropLast(w, 2))
            THEN LET intermediate_stem == DropLast(w, 2)
                 IN  IF EndsWith(intermediate_stem, <<"a", "t">>)
                     THEN Append(intermediate_stem, "e")
                     ELSE IF ends_double_consonant(intermediate_stem)
                     THEN (IF intermediate_stem[Len(intermediate_stem)]
                                 \notin {"l", "s", "z"}
                           THEN DropLast(intermediate_stem, 1)
                           ELSE intermediate_stem)
                     ELSE IF measure(intermediate_stem) = 1
                             /\ ends_cvc(intermediate_stem)
                     THEN Append(intermediate_stem, "e")
                     ELSE intermediate_stem
            ELSE w
        \* (m>0) ATOR -> ATE
        step2(w) ==
            IF EndsWith(w, <<"a", "t", "o", "r">>) /\ measure(DropLast(w, 4)) > 0
            THEN DropLast(w, 4) \o <<"a", "t", "e">>
            ELSE w
        \* (m>1) ANCE, ENCE, ER, ANT, ENT, ATE -> ''
        step4(w) ==
            IF \E suffix \in {<<"a", "n", "c", "e">>, <<"e", "n", "c", "e">>,
                              <<"e", "r">>, <<"a", "n", "t">>, <<"e", "n", "t">>,
                              <<"a", "t", "e">>} : EndsWith(w, suffix)
            THEN LET suffix == CHOOSE x \in {<<"a", "n", "c", "e">>,
                                             <<"e", "n", "c", "e">>, <<"e", "r">>,
                                             <<"a", "n", "t">>, <<"e", "n", "t">>,
                                             <<"a", "t", "e">>} : EndsWith(w, x)
                     stem == DropLast(w, Len(suffix))
                 IN  IF measure(stem) > 1 THEN stem ELSE w
            ELSE w
        \* (m>1) E -> '';  (m=1 and not *o) E -> ''
        step5a(w) ==
            IF EndsWith(w, <<"e">>)
            THEN LET stem == DropLast(w, 1)
                 IN  IF measure(stem) > 1 THEN stem
                     ELSE IF measure(stem) = 1 /\ ~ends_cvc(stem) THEN stem
                     ELSE w
            ELSE w
    IN  step5a(step4(step2(step1b(StrLower(word)))))

preprocess_text(text) ==
    Stem(Strip(Remove(Remove(StrLower(text), Punctuation), Digits)))

(***************************************************************************)
(* BooleanQueryParser.                                                     *)
(***************************************************************************)
AND == <<"A", "N", "D">>
OR  == <<"O", "R">>
NOT == <<"N", "O", "T">>
LP  == <<"(">>
RP  == <<")">>

\* self.operators
Operators == {AND, OR, NOT}
PrecAND == 2
PrecOR  == 1
PrecNOT == 3
\* self.operators.get(token, 0)
Prec(token) ==
    IF token = AND THEN PrecAND
    ELSE IF token = OR THEN PrecOR
    ELSE IF token = NOT THEN PrecNOT
    ELSE 0

\* the stop words of the built-in list (the LookupError branch) that the
\* model's alphabet can spell
StopWords == {<<"a">>, <<"a", "n">>, <<"o", "n">>, <<"a", "t">>,
              <<"o", "r">>, <<"t", "o">>, <<"a", "n", "d">>}

\* the words of nltk.corpus.stopwords.words('english') that the model's
\* alphabet can spell: a an and are aren at be been can d do don needn no nor
\* not o on once or re t to too; the spellable words of the built-in list are
\* among them.  The list holds the words as written, not their stems: once, whose
\* stem is onc, is in it and onc is not.
NltkStopWords ==
    StopWords \cup
    {<<"a", "r", "e">>, <<"a", "r", "e", "n">>, <<"b", "e">>,
     <<"b", "e", "e", "n">>, <<"c", "a", "n">>, <<"d">>, <<"d", "o">>,
     <<"d", "o", "n">>, <<"n", "e", "e", "d", "n">>, <<"n", "o">>,
     <<"n", "o", "r">>, <<"n", "o", "t">>,
     <<"o">>, <<"o", "n", "c", "e">>, <<"r", "e">>, <<"t">>,
     <<"t", "o", "o">>}

\* self.stopwords: which list it is depends on the installation
InstalledStopWords == IF q_nltk THEN NltkStopWords ELSE StopWords

\* query.replace("(", " ( ").replace(")", " ) ")
RECURSIVE PadParens(_)
PadParens(s) ==
    IF s = <<>> THEN <<>>
    ELSE (IF Head(s) \in {"(", ")"} THEN <<" ", Head(s), " ">> ELSE <<Head(s)>>)
             \o PadParens(Tail(s))

\* s.split(): the maximal runs of non-whitespace characters
RECURSIVE SplitWs(_, _)
SplitWs(s, word) ==
    IF s = <<>> THEN (IF word = <<>> THEN <<>> ELSE <<word>>)
    ELSE IF IsSpace(Head(s))
    THEN (IF word = <<>> THEN <<>> ELSE <<word>>) \o SplitWs(Tail(s), <<>>)
    ELSE SplitWs(Tail(s), Append(word, Head(s)))

\* the body of the for-loop of tokenize_query: what one token appends, for a
\* parser whose self.stopwords is stopwords
TokenizeOneWith(stopwords, token) ==
    IF StrUpper(token) \in {AND, OR, NOT, LP, RP} THEN <<StrUpper(token)>>
    ELSE LET preprocessed == preprocess_text(token)
         IN  IF preprocessed # <<>> /\ preprocessed \notin stopwords
             THEN <<preprocessed>> ELSE <<>>

RECURSIVE TokenizeAllWith(_, _)
TokenizeAllWith(stopwords, tokens) ==
    IF tokens = <<>> THEN <<>>
    ELSE TokenizeOneWith(stopwords, Head(tokens))
            \o TokenizeAllWith(stopwords, Tail(tokens))

tokenize_query_with(stopwords, query) ==
    TokenizeAllWith(stopwords, SplitWs(PadParens(query), <<>>))

\* the same for a parser of an installation without the nltk corpus
TokenizeOne(token) == TokenizeOneWith(StopWords, token)

TokenizeAll(tokens) == TokenizeAllWith(StopWords, tokens)

tokenize_query(query) == tokenize_query_with(StopWords, query)

\* mutant of PopsTop: every operator on the stack is popped, whatever its
\* precedence
PopsTop_NoPrecedence(top, token) == top # LP

\* mutant of PopsTop: NOT pops an operator of equal precedence, as AND and OR do
PopsTop_NotLeftAssociative(top, token) ==
    top # LP /\ Prec(top) >= Prec(StrUpper(token))

\* the condition of the while-loop of to_postfix, stack non-empty
PopsTop(top, token) ==
    /\ top # LP
    /\ \/ StrUpper(token) # NOT /\ Prec(top) >= Prec(StrUpper(token))
       \/ StrUpper(token) = NOT /\ Prec(top) > Prec(StrUpper(token))

\* to_postfix: st is <<output, stack>>, the top of the stack is its last element
RECURSIVE PopOperators(_, _)
PopOperators(st, token) ==
    IF st[2] # <<>> /\ PopsTop(st[2][Len(st[2])], token)
    THEN PopOperators(<<Append(st[1], st[2][Len(st[2])]),
                        SubSeq(st[2], 1, Len(st[2]) - 1)>>, token)
    ELSE st

RECURSIVE PopToParen(_)
PopToParen(st) ==
    IF st[2] # <<>> /\ st[2][Len(st[2])] # LP
    THEN PopToParen(<<Append(st[1], st[2][Len(st[2])]),
                      SubSeq(st[2], 1, Len(st[2]) - 1)>>)
    ELSE IF st[2] # <<>> THEN <<st[1], SubSeq(st[2], 1, Len(st[2]) - 1)>>
    ELSE st

Reverse(seq) == [k \in 1..Len(seq) |-> seq[Len(seq) + 1 - k]]

RECURSIVE PostfixLoop(_, _)
PostfixLoop(tokens, st) ==
    IF tokens = <<>> THEN st[1] \o Reverse(st[2])
    ELSE LET token == Head(tokens)
             st1 == IF StrUpper(token) \in Operators
                    THEN LET p == PopOperators(st, token)
                         IN  <<p[1], Append(p[2], StrUpper(token))>>
                    ELSE IF token = LP THEN <<st[1], Append(st[2], token)>>
                    ELSE IF token = RP THEN PopToParen(st)
                    ELSE <<Append(st[1], token), st[2]>>
         IN  PostfixLoop(Tail(tokens), st1)

to_postfix(tokens) == PostfixLoop(tokens, <<<<>>, <<>>>>)

(***************************************************************************)
(* Values on the evaluator's stack and in a loaded index: a plain set or a *)
(* PostingList object.                                                     *)
(***************************************************************************)
PlainSet(S)  == [kind |-> "set", docs |-> S, pl |-> <<>>]
Skipped(pl)  == [kind |-> "PostingList", docs |-> {}, pl |-> pl]
\* the elements a value yields when it is iterated
Elements(v)  == IF v.kind = "PostingList" THEN SeqToSet(v.pl.posting_list) ELSE v.docs

\* left.intersection(right): set.intersection, or PostingList.intersection,
\* which wraps a right operand that is no PostingList in PostingList(list(other))
ValIntersection(left, right) ==
    IF left.kind = "PostingList"
    THEN intersection(left.pl,
                      IF right.kind = "PostingList" THEN right.pl
                      ELSE PostingList(SortedSet(right.docs), None))
    ELSE left.docs \cap Elements(right)

\* left.union(right)
ValUnion(left, right) ==
    IF left.kind = "PostingList" THEN union(left.pl, Elements(right))
    ELSE left.docs \cup Elements(right)

\* all_docs: the union of the posting lists of the index
AllDocs(index) == UNION {Elements(index[t]) : t \in DOMAIN index}

\* one token of the for-loop of evaluate_postfix applied to the stack
EvalToken(stack, token, index, all_docs) ==
    LET n == Len(stack)
    IN  IF token = AND
        THEN IF n >= 2
             THEN Append(SubSeq(stack, 1, n - 2),
                         PlainSet(ValIntersection(stack[n - 1], stack[n])))
             ELSE stack
        ELSE IF token = OR
        THEN IF n >= 2
             THEN Append(SubSeq(stack, 1, n - 2),
                         PlainSet(ValUnion(stack[n - 1], stack[n])))
             ELSE stack
        ELSE IF token = NOT
        THEN IF n >= 1
             THEN Append(SubSeq(stack, 1, n - 1),
                         PlainSet(all_docs \ Elements(stack[n])))
             ELSE stack
        ELSE IF token \in DOMAIN index THEN Append(stack, index[token])
        ELSE Append(stack, PlainSet({}))

RECURSIVE EvalLoop(_, _, _, _)
EvalLoop(postfix, stack, index, all_docs) ==
    IF postfix = <<>> THEN stack
    ELSE EvalLoop(Tail(postfix), EvalToken(stack, Head(postfix), index, all_docs),
                  index, all_docs)

\* mutant of ReturnValue: the bottom of the stack is returned as it is
ReturnValue_Unconverted(stack) == IF stack # <<>> THEN stack[1] ELSE PlainSet({})

\* the value evaluate_postfix returns from the final stack: stack[0], a
\* PostingList converted with set(result.posting_list), or set() when the stack
\* is empty
ReturnValue(stack) ==
    IF stack # <<>>
    THEN IF stack[1].kind = "PostingList"
         THEN PlainSet(SeqToSet(stack[1].pl.posting_list))
         ELSE stack[1]
    ELSE PlainSet({})

\* the docIds of the returned value
StackResult(stack) == Elements(ReturnValue(stack))

\* the evaluator's stack when the for-loop ends
FinalStack(postfix, index) == EvalLoop(postfix, <<>>, index, AllDocs(index))

evaluate_postfix(postfix, index) == StackResult(FinalStack(postfix, index))

\* process_query with a parser whose self.stopwords is stopwords
process_query_with(stopwords, query, index) ==
    evaluate_postfix(to_postfix(tokenize_query_with(stopwords, query)), index)

\* process_query in an installation without the nltk corpus
process_query(query, index) == process_query_with(StopWords, query, index)

\* load_inverted_index reading the index file: later lines of a term replace
\* earlier ones
RECURSIVE LoadEntries(_, _, _)
LoadEntries(entries, skip_size, index) ==
    IF entries = <<>> THEN index
    ELSE LET e == Head(entries)
             v == IF skip_size > 0
                  THEN Skipped(PostingList(e.posting_list, <<skip_size>>))
                  ELSE PlainSet(SeqToSet(e.posting_list))
         IN  LoadEntries(Tail(entries), skip_size,
                         [t \in DOMAIN index \cup {e.term} |->
                             IF t = e.term THEN v ELSE index[t]])

load_inverted_index(file, skip_size) ==
    LoadEntries(ParseFile(file), skip_size, [t \in {} |-> PlainSet({})])

(***************************************************************************)
(* Well-formed queries with what they denote.  A query of the grammar      *)
(*    OrE ::= AndE | OrE OR AndE      AndE ::= NotE | AndE AND NotE        *)
(*    NotE ::= NOT NotE | Atom        Atom ::= term | ( OrE )              *)
(* is paired with its truth table: the sets of terms v such that a         *)
(* document held by exactly the posting lists of v satisfies the query.    *)
(***************************************************************************)
\* terms as typed in a query: one with an upper-case letter and a digit, a
\* plain one, and the word not with a comma: preprocess_text makes it not,
\* which tokenize_query drops as a stop word under the nltk list and keeps as
\* a term under the built-in list
QueryTerms == {<<"B", "1">>, <<"c">>, <<"n", "o", "t", ",">>}
QVars      == {preprocess_text(t) : t \in QueryTerms}
Valuations == SUBSET QVars
TermMeaning(t) == {v \in Valuations : preprocess_text(t) \in v}

Sp == <<" ">>
NoQueries == [atom |-> <<>>, note |-> <<>>, ande |-> <<>>, ore |-> <<>>]

\* Grammar(n).X[k]: the queries of k tokens derived from X, k <= n
RECURSIVE Grammar(_)
Grammar(n) ==
    IF n = 0 THEN NoQueries
    ELSE LET g == Grammar(n - 1)
             atom == (IF n = 1 THEN {<<t, TermMeaning(t)>> : t \in QueryTerms} ELSE {})
                     \cup (IF n >= 3
                           THEN {<<LP \o q[1] \o RP, q[2]>> : q \in g.ore[n - 2]}
                           ELSE {})
             note == atom \cup
                     (IF n >= 2
                      THEN {<<NOT \o Sp \o q[1], Valuations \ q[2]>> : q \in g.note[n - 1]}
                      ELSE {})
             ande == note \cup
                     UNION {{<<l[1] \o Sp \o AND \o Sp \o r[1], l[2] \cap r[2]>> :
                                l \in g.ande[k], r \in g.note[n - 1 - k]}
                               : k \in 1..(n - 2)}
             ore  == ande \cup
                     UNION {{<<l[1] \o Sp \o OR \o Sp \o r[1], l[2] \cup r[2]>> :
                                l \in g.ore[k], r \in g.ande[n - 1 - k]}
                               : k \in 1..(n - 2)}
         IN  [atom |-> Append(g.atom, atom), note |-> Append(g.note, note),
              ande |-> Append(g.ande, ande), ore |-> Append(g.ore, ore)]

WellFormed == UNION {Grammar(MaxQueryLen).ore[k] : k \in 1..MaxQueryLen}

\* the documents of the loaded index that a truth table selects
Denote(meaning, index) ==
    {d \in AllDocs(index) :
        {t \in QVars : t \in DOMAIN index /\ d \in Elements(index[t])} \in meaning}

(***************************************************************************)
(* A search run: search_command loads the index file and processes a query.*)
(***************************************************************************)
QDocs == {<<"d">>, <<"e">>, <<"d", "e">>}
Dictionaries ==
    UNION {[T -> SUBSET QDocs \ {{}}] : T \in SUBSET Terms \ {{}}}
\* the index files that single-block builds write
IndexFiles == {MergeOutput(<<BlockLines(d)>>) : d \in Dictionaries}

InitQuery ==
    /\ pc = "q_new"
    /\ q_file \in IndexFiles
    /\ q_skip \in 0..MaxSkip
    /\ q_index = <<>> /\ q_query = <<>> /\ q_tokens = <<>> /\ q_postfix = <<>>
    /\ q_result = {} /\ q_meaning = <<>>
    /\ q_nltk \in BOOLEAN
    /\ q_stack = <<>> /\ q_exit = <<>> /\ fs_index = <<>> /\ fs_skips = <<>>
    /\ IdleIx /\ IdlePL /\ IdleC

\* pickle.dump(inverted_index, f): the (term, PostingList) entries of the dict
Pickle(index) == {<<t, index[t].pl>> : t \in DOMAIN index}

\* pickle.load(f)
Unpickle(data) ==
    [t \in {e[1] : e \in data} |-> Skipped((CHOOSE e \in data : e[1] = t)[2])]

\* load_inverted_index on the files of the disk: the mapping it returns or the
\* exception it raises, and the sidecar it leaves
load_inverted_index_fs(index_file, skips_file, skip_size) ==
    IF skip_size > 0 /\ skips_file # NoFile
    THEN [raised |-> None, index |-> Unpickle(skips_file[1]),
          skips_file |-> skips_file]
    ELSE IF index_file = NoFile
    THEN [raised |-> <<"FileNotFoundError">>, index |-> <<>>,
          skips_file |-> skips_file]
    ELSE LET inverted_index == load_inverted_index(index_file[1], skip_size)
         IN  [raised |-> None, index |-> inverted_index,
              skips_file |-> IF skip_size > 0 THEN <<Pickle(inverted_index)>>
                             ELSE skips_file]

\* load_inverted_index(index_file, skip_size) on a directory that holds the
\* index file q_file and the sidecar fs_skips: with skip_size > 0 the call
\* leaves the sidecar "{index_file}.skips" behind
LoadIndex ==
    /\ pc = "q_new"
    /\ LET l == load_inverted_index_fs(<<q_file>>, fs_skips, q_skip)
       IN  /\ q_index' = l.index
           /\ fs_skips' = l.skips_file
    /\ pc' = "q_loaded"
    /\ UNCHANGED <<q_file, q_skip, q_query, q_tokens, q_postfix, q_result, q_meaning,
                   q_nltk, q_stack, q_exit, fs_index,
                   ixvars, plvars, cvars>>

ProcessQuery ==
    /\ pc = "q_loaded"
    /\ \E w \in WellFormed :
          /\ q_query' = w[1]
          /\ q_meaning' = <<w[2]>>
    /\ q_tokens' = tokenize_query_with(InstalledStopWords, q_query')
    /\ q_postfix' = to_postfix(q_tokens')
    /\ q_stack' = FinalStack(q_postfix', q_index)
    /\ q_result' = StackResult(q_stack')
    /\ pc' = "q_done"
    /\ UNCHANGED <<q_file, q_skip, q_index, q_nltk, q_exit, fs_index, fs_skips,
                   ixvars, plvars, cvars>>

NextQuery == LoadIndex \/ ProcessQuery

SpecQuery == InitQuery /\ [][NextQuery]_vars

(***************************************************************************)
(* A search run with any query: the query is a sequence of terms,          *)
(* operators and parentheses in any order, joined with spaces.             *)
(***************************************************************************)
RawTokens == {<<"b">>, <<"c">>, AND, OR, NOT, LP, RP}
RawQueries == UNION {[1..n -> RawTokens] : n \in 0..MaxRawLen}

ProcessTokens ==
    /\ pc = "q_loaded"
    /\ \E raw \in RawQueries : q_query' = Join(raw, Sp)
    /\ q_meaning' = <<>>
    /\ q_tokens' = tokenize_query_with(InstalledStopWords, q_query')
    /\ q_postfix' = to_postfix(q_tokens')
    /\ q_stack' = FinalStack(q_postfix', q_index)
    /\ q_result' = evaluate_postfix(q_postfix', q_index)
    /\ pc' = "q_done"
    /\ UNCHANGED <<q_file, q_skip, q_index, q_nltk, q_exit, fs_index, fs_skips,
                   ixvars, plvars, cvars>>

NextTokens == LoadIndex \/ ProcessTokens

SpecTokens == InitQuery /\ [][NextTokens]_vars

\* C11 (as claimed): when the evaluator ends with more than one value on its
\* stack the result is the value on top of the stack, the last one pushed; when
\* the stack is empty the result is the empty set.
C11_ResultIsTopOfStack ==
    pc = "q_done" =>
        /\ Len(q_stack) > 1 => q_result = Elements(q_stack[Len(q_stack)])
        /\ q_stack = <<>> => q_result = {}

\* C12: for every sequence of terms, operators and parentheses, to_postfix and
\* evaluate_postfix yield a plain set, never a PostingList, of docIds of the
\* Universe: every value left on the stack holds docIds of the index only, and
\* the returned value is a plain set.
C12_MalformedQueryGivesPlainSet ==
    pc = "q_done" =>
        /\ ReturnValue(q_stack).kind = "set"
        /\ ReturnValue(q_stack).docs = q_result
        /\ q_result \subseteq AllDocs(q_index)
        /\ \A k \in 1..Len(q_stack) : Elements(q_stack[k]) \subseteq AllDocs(q_index)
        /\ Len(q_stack) <= Len(q_postfix) /\ Len(q_postfix) <= Len(q_tokens)

\* C12 witness: a query with an unbalanced parenthesis and an operator that
\* lacks an operand was evaluated on a PostingList-valued index, and a
\* PostingList was at the bottom of the final stack.
C12_Witness ==
    /\ pc = "q_done" /\ q_skip > 0
    /\ q_tokens = <<LP, <<"b">>, AND>>
    /\ q_stack # <<>> /\ q_stack[1].kind = "PostingList"
    /\ q_result # {}

\* C5: a well-formed query evaluates to the set its expression denotes, every
\* term denoting its posting set in the index (empty if absent), AND being
\* intersection, OR union and NOT x the Universe minus x, for set-valued and
\* PostingList-valued indexes.
C5_QueryDenotation ==
    (pc = "q_done" /\ q_meaning # <<>>) => q_result = Denote(q_meaning[1], q_index)

(***************************************************************************)
(* The index file and its "{index}.skips" sidecar on disk.  Builds write   *)
(* the index file, the user may delete it, and every search_command run    *)
(* loads the index with load_inverted_index and processes one query.       *)
(***************************************************************************)
\* search_command: the exit code, with what the run loaded and computed; the
\* parser's self.stopwords is stopwords
search_command(stopwords, index_file, skips_file, query, skips) ==
    LET l == load_inverted_index_fs(index_file, skips_file, skips)
        tokens == tokenize_query_with(stopwords, query)
        postfix == to_postfix(tokens)
    IN  IF l.raised # None
        THEN [exit |-> 1, index |-> <<>>, skips_file |-> l.skips_file,
              tokens |-> <<>>, postfix |-> <<>>, stack |-> <<>>, result |-> {}]
        ELSE [exit |-> 0, index |-> l.index, skips_file |-> l.skips_file,
              tokens |-> tokens, postfix |-> postfix,
              stack |-> FinalStack(postfix, l.index),
              result |-> evaluate_postfix(postfix, l.index)]

\* index terms as the Tokenizer emits them: it keeps the digits of a token
SearchTerms == {<<"b">>, <<"a", "1">>}
SearchDocs  == {<<"d">>, <<"e">>}
SearchDicts ==
    UNION {[T -> SUBSET SearchDocs \ {{}}] : T \in SUBSET SearchTerms \ {{}}}
\* the index files that builds write
SearchFiles == {MergeOutput(<<BlockLines(d)>>) : d \in SearchDicts}

TOrNotT(t) == t \o Sp \o OR \o Sp \o LP \o NOT \o Sp \o t \o RP
SearchQueries == SearchTerms \cup {TOrNotT(t) : t \in SearchTerms}

\* the variables of a search process, before it runs
NoSearch ==
    /\ q_file = <<>> /\ q_skip = 0 /\ q_index = <<>> /\ q_query = <<>>
    /\ q_tokens = <<>> /\ q_postfix = <<>> /\ q_result = {} /\ q_meaning = <<>>
    /\ q_stack = <<>> /\ q_exit = <<>>

\* the search process has exited: its variables are as before a run
ForgetSearch ==
    /\ q_file' = <<>> /\ q_skip' = 0 /\ q_index' = <<>> /\ q_query' = <<>>
    /\ q_tokens' = <<>> /\ q_postfix' = <<>> /\ q_result' = {} /\ q_meaning' = <<>>
    /\ q_stack' = <<>> /\ q_exit' = <<>>

InitSearch ==
    /\ pc = "s_ready"
    /\ fs_index = NoFile /\ fs_skips = NoFile
    /\ q_nltk \in BOOLEAN
    /\ NoSearch
    /\ IdleIx /\ IdlePL /\ IdleC

\* a build to the output path: merge_blocks writes the index file
WriteIndex ==
    /\ pc \in {"s_ready", "s_searched"}
    /\ \E f \in SearchFiles : fs_index' = <<f>>
    /\ ForgetSearch
    /\ pc' = "s_ready"
    /\ UNCHANGED <<fs_skips, q_nltk, ixvars, plvars, cvars>>

\* the index file is deleted
RemoveIndex ==
    /\ pc \in {"s_ready", "s_searched"}
    /\ fs_index # NoFile
    /\ fs_index' = NoFile
    /\ ForgetSearch
    /\ pc' = "s_ready"
    /\ UNCHANGED <<fs_skips, q_nltk, ixvars, plvars, cvars>>

Search ==
    /\ pc \in {"s_ready", "s_searched"}
    /\ \E skips \in 0..MaxSkip, query \in SearchQueries :
          LET r == search_command(InstalledStopWords, fs_index, fs_skips, query, skips)
          IN  /\ q_skip' = skips
              /\ q_query' = query
              /\ q_index' = r.index
              /\ q_tokens' = r.tokens
              /\ q_postfix' = r.postfix
              /\ q_stack' = r.stack
              /\ q_result' = r.result
              /\ q_exit' = <<r.exit>>
              /\ fs_skips' = r.skips_file
    /\ pc' = "s_searched"
    /\ UNCHANGED <<q_file, q_meaning, q_nltk, fs_index, ixvars, plvars, cvars>>

NextSearch == WriteIndex \/ RemoveIndex \/ Search

SpecSearch == InitSearch /\ [][NextSearch]_vars

\* the docId set of every term of the index file, as a plain load reads it
FileMapping(file) ==
    LET index == load_inverted_index(file, 0)
    IN  [t \in DOMAIN index |-> Elements(index[t])]

\* C13 (as claimed): a load with skip_size > 0 returns a mapping with the terms
\* of the index file at the time of the load and the docId set the file holds
\* for each, whether it is built from the file or reloaded from the sidecar.
C13_LoadMatchesIndexFile ==
    (pc = "s_searched" /\ q_skip > 0 /\ fs_index # NoFile /\ q_exit = <<0>>) =>
        [t \in DOMAIN q_index |-> Elements(q_index[t])] = FileMapping(fs_index[1])

\* C14 (as claimed): a search run whose index file does not exist exits with
\* code 1, whatever --skips is and whether a sidecar exists or not.
C14_MissingIndexExitsOne ==
    (pc = "s_searched" /\ fs_index = NoFile) => q_exit = <<1>>

\* C17 (as claimed): for a term T of the loaded index, the query T OR (NOT T)
\* evaluates to the Universe, the union of the posting lists of the index.
C17_TOrNotTIsUniverse ==
    (pc = "s_searched" /\ q_exit = <<0>>) =>
        \A t \in DOMAIN q_index :
            q_query = TOrNotT(t) => q_result = AllDocs(q_index)

(***************************************************************************)
(* Dictionary compressors.  An object is a record of its fields; dicts are *)
(* functions; lookup returns <<>> for None and <<term>> for a term.        *)
(***************************************************************************)
DefaultBlockSize == 8

NewStringCompressor == [dictionary_string |-> <<>>, term_offsets |-> <<>>]

\* the for-loop of DictionaryAsAStringCompressor.build
RECURSIVE StringBuildLoop(_, _, _)
StringBuildLoop(self, sorted_terms, offset) ==
    IF sorted_terms = <<>> THEN self
    ELSE LET term == Head(sorted_terms)
             o == self.term_offsets
         IN  StringBuildLoop(
                [dictionary_string |-> self.dictionary_string \o term,
                 term_offsets |-> [t \in DOMAIN o \cup {term} |->
                                      IF t = term THEN offset ELSE o[t]]],
                Tail(sorted_terms), offset + Len(term))

string_build(self, terms) ==
    StringBuildLoop(NewStringCompressor, SortedList(terms), 0)

\* s[lo:hi]
Slice(s, lo, hi) == SubSeq(s, lo + 1, Min(hi, Len(s)))

string_lookup(self, term) ==
    IF term \in DOMAIN self.term_offsets
    THEN <<Slice(self.dictionary_string, self.term_offsets[term],
                 self.term_offsets[term] + Len(term))>>
    ELSE None

\* the common prefix length of two consecutive terms
RECURSIVE CommonPrefixLen(_, _)
CommonPrefixLen(prev_term, curr_term) ==
    IF prev_term = <<>> \/ curr_term = <<>> THEN 0
    ELSE IF Head(prev_term) = Head(curr_term)
    THEN 1 + CommonPrefixLen(Tail(prev_term), Tail(curr_term))
    ELSE 0

\* mutant of FrontCode: the suffix starts one character late
FrontCode_OffByOne(prev_term, curr_term) ==
    LET prefix_len == CommonPrefixLen(prev_term, curr_term)
    IN  <<prefix_len, Slice(curr_term, prefix_len + 1, Len(curr_term))>>

\* (prefix_len, curr_term[prefix_len:])
FrontCode(prev_term, curr_term) ==
    LET prefix_len == CommonPrefixLen(prev_term, curr_term)
    IN  <<prefix_len, Slice(curr_term, prefix_len, Len(curr_term))>>

NewBlockingCompressor(bsize) ==
    [block_size |-> bsize, compressed_blocks |-> <<>>, term_to_block |-> <<>>]

\* the compressed block of the terms of one block
CompressBlock(block_terms) ==
    [j \in 1..Len(block_terms) |->
        IF j = 1 THEN block_terms[1] ELSE FrontCode(block_terms[j - 1], block_terms[j])]

\* term_to_block after "for j, term in enumerate(block_terms)", from index j
RECURSIVE MapBlockTerms(_, _, _, _)
MapBlockTerms(map, block_terms, block_idx, j) ==
    IF j >= Len(block_terms) THEN map
    ELSE MapBlockTerms([t \in DOMAIN map \cup {block_terms[j + 1]} |->
                           IF t = block_terms[j + 1] THEN <<block_idx, j>> ELSE map[t]],
                       block_terms, block_idx, j + 1)

\* the for-loop of BlockingCompressor.compress, from index i
RECURSIVE BlockingLoop(_, _, _)
BlockingLoop(self, sorted_terms, i) ==
    IF i >= Len(sorted_terms) THEN self
    ELSE LET block_terms == Slice(sorted_terms, i, i + self.block_size)
             blocks == Append(self.compressed_blocks, CompressBlock(block_terms))
         IN  BlockingLoop(
                [self EXCEPT !.compressed_blocks = blocks,
                             !.term_to_block = MapBlockTerms(self.term_to_block,
                                                  block_terms, Len(blocks) - 1, 0)],
                sorted_terms, i + self.block_size)

blocking_compress(self, terms) == BlockingLoop(self, SortedList(terms), 0)

RECURSIVE blocking_decompress(_, _, _)
blocking_decompress(self, block_idx, term_idx) ==
    IF block_idx >= Len(self.compressed_blocks)
       \/ term_idx >= Len(self.compressed_blocks[block_idx + 1])
    THEN None
    ELSE LET block == self.compressed_blocks[block_idx + 1]
         IN  IF term_idx = 0 THEN <<block[1]>>
             ELSE LET prev_term == blocking_decompress(self, block_idx, term_idx - 1)[1]
                  IN  <<Slice(prev_term, 0, block[term_idx + 1][1])
                            \o block[term_idx + 1][2]>>

blocking_lookup(self, term) ==
    IF term \in DOMAIN self.term_to_block
    THEN blocking_decompress(self, self.term_to_block[term][1],
                             self.term_to_block[term][2])
    ELSE None

NewFrontCodingCompressor == [compressed_terms |-> <<>>, term_to_index |-> <<>>]

\* the for-loop of FrontCodingCompressor.compress, from index i
RECURSIVE FrontLoop(_, _, _)
FrontLoop(self, sorted_terms, i) ==
    IF i >= Len(sorted_terms) THEN self
    ELSE LET curr_term == sorted_terms[i + 1]
             m == self.term_to_index
         IN  FrontLoop(
                [compressed_terms |-> Append(self.compressed_terms,
                                             FrontCode(sorted_terms[i], curr_term)),
                 term_to_index |-> [t \in DOMAIN m \cup {curr_term} |->
                                       IF t = curr_term THEN i ELSE m[t]]],
                sorted_terms, i + 1)

front_compress(self, terms) ==
    LET sorted_terms == SortedList(terms)
    IN  IF sorted_terms = <<>> THEN self
        ELSE FrontLoop([compressed_terms |-> <<<<0, sorted_terms[1]>>>>,
                        term_to_index |-> [t \in {sorted_terms[1]} |-> 0]],
                       sorted_terms, 1)

RECURSIVE front_decompress(_, _)
front_decompress(self, index) ==
    IF index >= Len(self.compressed_terms) THEN None
    ELSE LET prefix_len == self.compressed_terms[index + 1][1]
             suffix     == self.compressed_terms[index + 1][2]
         IN  IF index = 0 \/ prefix_len = 0 THEN <<suffix>>
             ELSE <<Slice(front_decompress(self, index - 1)[1], 0, prefix_len)
                        \o suffix>>

front_lookup(self, term) ==
    IF term \in DOMAIN self.term_to_index
    THEN front_decompress(self, self.term_to_index[term])
    ELSE None

(***************************************************************************)
(* save_to_file and load_from_file.  A file holds a JSON value: a string,  *)
(* a number, an array or an object; json.dump writes a tuple as an array   *)
(* and json.load reads an array as a list.                                 *)
(***************************************************************************)
JStr(s)   == [json |-> "string", v |-> s]
JNum(n)   == [json |-> "number", v |-> n]
JArr(seq) == [json |-> "array",  v |-> seq]
JObj(f)   == [json |-> "object", v |-> f]

\* json.load: the Python value of a JSON value
RECURSIVE FromJson(_)
FromJson(j) ==
    CASE j.json = "string" -> j.v
      [] j.json = "number" -> j.v
      [] j.json = "array"  -> [k \in 1..Len(j.v) |-> FromJson(j.v[k])]
      [] j.json = "object" -> [key \in DOMAIN j.v |-> FromJson(j.v[key])]

\* json.dump of a (prefix_len, suffix) tuple
PairToJson(pair) == JArr(<<JNum(pair[1]), JStr(pair[2])>>)

string_save(self) ==
    JObj([dictionary_string |-> JStr(self.dictionary_string),
          term_offsets |-> JObj([t \in DOMAIN self.term_offsets |->
                                    JNum(self.term_offsets[t])])])

string_load(self, file) ==
    LET compression_data == FromJson(file)
    IN  [self EXCEPT !.dictionary_string = compression_data.dictionary_string,
                     !.term_offsets = compression_data.term_offsets]

\* json.dump of a compressed block: the first term, then the pairs
BlockToJson(block) ==
    JArr([j \in 1..Len(block) |->
            IF j = 1 THEN JStr(block[1]) ELSE PairToJson(block[j])])

blocking_save(self) ==
    JObj([block_size |-> JNum(self.block_size),
          compressed_blocks |->
              JArr([k \in 1..Len(self.compressed_blocks) |->
                       BlockToJson(self.compressed_blocks[k])]),
          term_to_block |->
              JObj([t \in DOMAIN self.term_to_block |->
                       JArr(<<JNum(self.term_to_block[t][1]),
                              JNum(self.term_to_block[t][2])>>)])])

\* mutant of blocking_load: term_to_block is not restored
blocking_load_NoTermMap(self, file) ==
    LET compression_data == FromJson(file)
    IN  [self EXCEPT !.block_size = compression_data.block_size,
                     !.compressed_blocks = compression_data.compressed_blocks]

blocking_load(self, file) ==
    LET compression_data == FromJson(file)
    IN  [self EXCEPT !.block_size = compression_data.block_size,
                     !.compressed_blocks = compression_data.compressed_blocks,
                     !.term_to_block = compression_data.term_to_block]

front_save(self) ==
    JObj([compressed_terms |->
              JArr([k \in 1..Len(self.compressed_terms) |->
                       PairToJson(self.compressed_terms[k])]),
          term_to_index |-> JObj([t \in DOMAIN self.term_to_index |->
                                     JNum(self.term_to_index[t])])])

front_load(self, file) ==
    LET compression_data == FromJson(file)
    IN  [self EXCEPT !.compressed_terms = compression_data.compressed_terms,
                     !.term_to_index = compression_data.term_to_index]

(***************************************************************************)
(* A compressor run: the three compressors are built from a term list,     *)
(* saved, and loaded into fresh instances.                                 *)
(***************************************************************************)
NoCompFiles == [string |-> <<>>, block |-> <<>>, front |-> <<>>]

CompTerms == {<<>>, <<"b">>, <<"c">>, <<"b", "b">>, <<"b", "c">>,
              <<"c", "b">>, <<"c", "c">>}
TermLists == UNION {[1..n -> CompTerms] : n \in 0..MaxTerms}

InitComp ==
    /\ pc = "c_run"
    /\ c_terms \in TermLists
    /\ c_terms2 = <<>>
    /\ c_bsize \in 1..MaxCBlock \cup {DefaultBlockSize}
    /\ c_string = [obj |-> NewStringCompressor, builds |-> 0]
    /\ c_block = [obj |-> NewBlockingCompressor(c_bsize), builds |-> 0]
    /\ c_front = [obj |-> NewFrontCodingCompressor, builds |-> 0]
    /\ c_file = NoCompFiles
    /\ c_loaded = NoCompFiles
    /\ IdleIx /\ IdlePL /\ IdleQ

StringBuild ==
    /\ pc = "c_run" /\ c_string.builds = 0
    /\ c_string' = [obj |-> string_build(c_string.obj, c_terms), builds |-> 1]
    /\ UNCHANGED <<pc, c_terms, c_terms2, c_bsize, c_block, c_front, c_file, c_loaded,
                   ixvars, plvars, qvars>>

BlockingCompress ==
    /\ pc = "c_run" /\ c_block.builds = 0
    /\ c_block' = [obj |-> blocking_compress(c_block.obj, c_terms), builds |-> 1]
    /\ UNCHANGED <<pc, c_terms, c_terms2, c_bsize, c_string, c_front, c_file, c_loaded,
                   ixvars, plvars, qvars>>

FrontCompress ==
    /\ pc = "c_run" /\ c_front.builds = 0
    /\ c_front' = [obj |-> front_compress(c_front.obj, c_terms), builds |-> 1]
    /\ UNCHANGED <<pc, c_terms, c_terms2, c_bsize, c_string, c_block, c_file, c_loaded,
                   ixvars, plvars, qvars>>

StringSave ==
    /\ pc = "c_run" /\ c_string.builds = 1 /\ c_file.string = <<>>
    /\ c_file' = [c_file EXCEPT !.string = <<string_save(c_string.obj)>>]
    /\ UNCHANGED <<pc, c_terms, c_terms2, c_bsize, c_string, c_block, c_front, c_loaded,
                   ixvars, plvars, qvars>>

StringLoad ==
    /\ pc = "c_run" /\ c_file.string # <<>> /\ c_loaded.string = <<>>
    /\ c_loaded' = [c_loaded EXCEPT
                        !.string = <<string_load(NewStringCompressor, c_file.string[1])>>]
    /\ UNCHANGED <<pc, c_terms, c_terms2, c_bsize, c_string, c_block, c_front, c_file,
                   ixvars, plvars, qvars>>

BlockingSave ==
    /\ pc = "c_run" /\ c_block.builds = 1 /\ c_file.block = <<>>
    /\ c_file' = [c_file EXCEPT !.block = <<blocking_save(c_block.obj)>>]
    /\ UNCHANGED <<pc, c_terms, c_terms2, c_bsize, c_string, c_block, c_front, c_loaded,
                   ixvars, plvars, qvars>>

\* the fresh instance is BlockingCompressor(): block_size 8 until the load
BlockingLoad ==
    /\ pc = "c_run" /\ c_file.block # <<>> /\ c_loaded.block = <<>>
    /\ c_loaded' = [c_loaded EXCEPT
                        !.block = <<blocking_load(NewBlockingCompressor(DefaultBlockSize),
                                                  c_file.block[1])>>]
    /\ UNCHANGED <<pc, c_terms, c_terms2, c_bsize, c_string, c_block, c_front, c_file,
                   ixvars, plvars, qvars>>

FrontSave ==
    /\ pc = "c_run" /\ c_front.builds = 1 /\ c_file.front = <<>>
    /\ c_file' = [c_file EXCEPT !.front = <<front_save(c_front.obj)>>]
    /\ UNCHANGED <<pc, c_terms, c_terms2, c_bsize, c_string, c_block, c_front, c_loaded,
                   ixvars, plvars, qvars>>

FrontLoad ==
    /\ pc = "c_run" /\ c_file.front # <<>> /\ c_loaded.front = <<>>
    /\ c_loaded' = [c_loaded EXCEPT
                        !.front = <<front_load(NewFrontCodingCompressor, c_file.front[1])>>]
    /\ UNCHANGED <<pc, c_terms, c_terms2, c_bsize, c_string, c_block, c_front, c_file,
                   ixvars, plvars, qvars>>

NextComp ==
    \/ StringBuild \/ BlockingCompress \/ FrontCompress
    \/ StringSave \/ BlockingSave \/ FrontSave
    \/ StringLoad \/ BlockingLoad \/ FrontLoad

SpecComp == InitComp /\ [][NextComp]_vars

Expected(u) == IF u \in SeqToSet(c_terms) THEN <<u>> ELSE None

\* C7: after a compressor is built from a term list on a fresh instance,
\* lookup(t) returns t for every term of the list and None for any other term.
C7_CompressionRoundTrip ==
    /\ c_string.builds = 1 =>
          \A u \in CompTerms : string_lookup(c_string.obj, u) = Expected(u)
    /\ c_block.builds = 1 =>
          \A u \in CompTerms : blocking_lookup(c_block.obj, u) = Expected(u)
    /\ c_front.builds = 1 =>
          \A u \in CompTerms : front_lookup(c_front.obj, u) = Expected(u)

\* C7 witness: the three compressors built from a list with a repeated term
\* and two terms that share a prefix, the blocking compressor holding two blocks.
C7_Witness ==
    /\ c_string.builds = 1 /\ c_block.builds = 1 /\ c_front.builds = 1
    /\ Len(c_block.obj.compressed_blocks) = 2
    /\ \E k \in 1..Len(c_front.obj.compressed_terms) :
          c_front.obj.compressed_terms[k][1] > 0 /\ c_front.obj.compressed_terms[k][2] # <<>>
    /\ Cardinality(SeqToSet(c_terms)) < Len(c_terms)

\* C18: a dictionary built from a term list, saved with save_to_file and
\* loaded with load_from_file into a fresh instance looks up every term as
\* the original does: lookup(t) is t for the terms of the list, None otherwise.
C18_SaveLoadRoundTrip ==
    /\ c_loaded.string # <<>> =>
          \A u \in CompTerms :
              /\ string_lookup(c_loaded.string[1], u) = Expected(u)
              /\ string_lookup(c_loaded.string[1], u) = string_lookup(c_string.obj, u)
    /\ c_loaded.block # <<>> =>
          /\ c_loaded.block[1].block_size = c_bsize
          /\ \A u \in CompTerms :
                /\ blocking_lookup(c_loaded.block[1], u) = Expected(u)
                /\ blocking_lookup(c_loaded.block[1], u) = blocking_lookup(c_block.obj, u)
    /\ c_loaded.front # <<>> =>
          \A u \in CompTerms :
              /\ front_lookup(c_loaded.front[1], u) = Expected(u)
              /\ front_lookup(c_loaded.front[1], u) = front_lookup(c_front.obj, u)

\* C18 witness: the three dictionaries were saved and loaded; the blocking file
\* holds two blocks, one of them with a (prefix_len, suffix) pair written as
\* an array, and the term list holds the empty term.
C18_Witness ==
    /\ c_loaded.string # <<>> /\ c_loaded.block # <<>> /\ c_loaded.front # <<>>
    /\ Len(c_file.block[1].v.compressed_blocks.v) = 2
    /\ \E k \in 1..2 :
          /\ Len(c_file.block[1].v.compressed_blocks.v[k].v) = 2
          /\ c_file.block[1].v.compressed_blocks.v[k].v[2].json = "array"
    /\ <<>> \in SeqToSet(c_terms)
    /\ c_bsize # DefaultBlockSize

(***************************************************************************)
(* Claims about to_postfix.                                                *)
(***************************************************************************)
\* terms as tokenize_query hands them to to_postfix; the last is in no index
PostfixTerms == {<<"b">>, <<"c">>, <<"c", "b">>}
I(t) == IF t \in DOMAIN q_index THEN Elements(q_index[t]) ELSE {}
Ev(tokens) == evaluate_postfix(to_postfix(tokens), q_index)

\* C6: to_postfix gives OR < AND < NOT, AND and OR left-associative, NOT
\* right-associative: a AND b OR c is (a AND b) OR c, a OR b AND c is
\* a OR (b AND c), NOT a AND b is (NOT a) AND b, and parentheses override.
C6_Precedence ==
    /\ pc = "q_loaded" =>
          \A a \in PostfixTerms, b \in PostfixTerms, c \in PostfixTerms :
             LET U == AllDocs(q_index)
             IN  /\ to_postfix(<<a, AND, b, OR, c>>) = <<a, b, AND, c, OR>>
                 /\ Ev(<<a, AND, b, OR, c>>) = (I(a) \cap I(b)) \cup I(c)
                 /\ Ev(<<a, AND, b, OR, c>>) = Ev(<<LP, a, AND, b, RP, OR, c>>)
                 /\ to_postfix(<<a, OR, b, AND, c>>) = <<a, b, c, AND, OR>>
                 /\ Ev(<<a, OR, b, AND, c>>) = I(a) \cup (I(b) \cap I(c))
                 /\ Ev(<<a, OR, b, AND, c>>) = Ev(<<a, OR, LP, b, AND, c, RP>>)
                 /\ to_postfix(<<NOT, a, AND, b>>) = <<a, NOT, b, AND>>
                 /\ Ev(<<NOT, a, AND, b>>) = (U \ I(a)) \cap I(b)
                 /\ Ev(<<NOT, a, AND, b>>) = Ev(<<LP, NOT, a, RP, AND, b>>)
                 /\ to_postfix(<<a, AND, b, AND, c>>) = <<a, b, AND, c, AND>>
                 /\ to_postfix(<<a, OR, b, OR, c>>) = <<a, b, OR, c, OR>>
                 /\ to_postfix(<<NOT, NOT, a>>) = <<a, NOT, NOT>>
                 /\ Ev(<<a, AND, LP, b, OR, c, RP>>) = I(a) \cap (I(b) \cup I(c))
                 /\ Ev(<<LP, a, OR, b, RP, AND, c>>) = (I(a) \cup I(b)) \cap I(c)
                 /\ Ev(<<NOT, LP, a, AND, b, RP>>) = U \ (I(a) \cap I(b))
    /\ pc = "q_done" =>
          \A a \in PostfixTerms, b \in PostfixTerms, c \in PostfixTerms :
              /\ q_tokens = <<a, AND, b, OR, c>> =>
                    q_postfix = <<a, b, AND, c, OR>>
                    /\ q_result = (I(a) \cap I(b)) \cup I(c)
              /\ q_tokens = <<a, OR, b, AND, c>> =>
                    q_postfix = <<a, b, c, AND, OR>>
                    /\ q_result = I(a) \cup (I(b) \cap I(c))
              /\ q_tokens = <<NOT, a, AND, b>> =>
                    q_postfix = <<a, NOT, b, AND>>
                    /\ q_result = (AllDocs(q_index) \ I(a)) \cap I(b)

\* C6 witness: the query b AND c OR c was processed on an index where
\* (b AND c) OR c and b AND (c OR c) denote different sets.
C6_Witness ==
    /\ pc = "q_done"
    /\ q_tokens = <<<<"b">>, AND, <<"c">>, OR, <<"c">>>>
    /\ q_result = (I(<<"b">>) \cap I(<<"c">>)) \cup I(<<"c">>)
    /\ q_result # I(<<"b">>) \cap (I(<<"c">>) \cup I(<<"c">>))

(***************************************************************************)
(* A compressor that is built twice: each of the three is built from a     *)
(* first term list and then, on the same instance, from a second one.      *)
(***************************************************************************)
RebuildTerms == {<<"b">>, <<"b", "c">>, <<"c">>}
RebuildLists == UNION {[1..n -> RebuildTerms] : n \in 0..MaxRebuild}

InitRebuild ==
    /\ pc = "c_run"
    /\ c_terms \in RebuildLists
    /\ c_terms2 \in RebuildLists
    /\ c_bsize \in 1..MaxCBlock \cup {DefaultBlockSize}
    /\ c_string = [obj |-> NewStringCompressor, builds |-> 0]
    /\ c_block = [obj |-> NewBlockingCompressor(c_bsize), builds |-> 0]
    /\ c_front = [obj |-> NewFrontCodingCompressor, builds |-> 0]
    /\ c_file = NoCompFiles
    /\ c_loaded = NoCompFiles
    /\ IdleIx /\ IdlePL /\ IdleQ

StringRebuild ==
    /\ pc = "c_run" /\ c_string.builds = 1
    /\ c_string' = [obj |-> string_build(c_string.obj, c_terms2), builds |-> 2]
    /\ UNCHANGED <<pc, c_terms, c_terms2, c_bsize, c_block, c_front, c_file, c_loaded,
                   ixvars, plvars, qvars>>

BlockingRecompress ==
    /\ pc = "c_run" /\ c_block.builds = 1
    /\ c_block' = [obj |-> blocking_compress(c_block.obj, c_terms2), builds |-> 2]
    /\ UNCHANGED <<pc, c_terms, c_terms2, c_bsize, c_string, c_front, c_file, c_loaded,
                   ixvars, plvars, qvars>>

FrontRecompress ==
    /\ pc = "c_run" /\ c_front.builds = 1
    /\ c_front' = [obj |-> front_compress(c_front.obj, c_terms2), builds |-> 2]
    /\ UNCHANGED <<pc, c_terms, c_terms2, c_bsize, c_string, c_block, c_file, c_loaded,
                   ixvars, plvars, qvars>>

NextRebuild ==
    \/ StringBuild \/ BlockingCompress \/ FrontCompress
    \/ StringRebuild \/ BlockingRecompress \/ FrontRecompress

SpecRebuild == InitRebuild /\ [][NextRebuild]_vars

Expected2(u) == IF u \in SeqToSet(c_terms2) THEN <<u>> ELSE None

\* C25 (as claimed): after a compressor is built from a list T1 and then,
\* on the same instance, from a list T2, lookup(t) returns t for the terms
\* of T2 and None for any other term, the terms that are only in T1 included.
C25_RebuildReplaces ==
    /\ c_string.builds = 2 =>
          \A u \in RebuildTerms : string_lookup(c_string.obj, u) = Expected2(u)
    /\ c_block.builds = 2 =>
          \A u \in RebuildTerms : blocking_lookup(c_block.obj, u) = Expected2(u)
    /\ c_front.builds = 2 =>
          \A u \in RebuildTerms : front_lookup(c_front.obj, u) = Expected2(u)

(***************************************************************************)
(* The end of index_command: the dictionary compression asked for with     *)
(* --compress, and the exit code.                                          *)
(***************************************************************************)
\* parts[0] of line.strip().split('\t') for every line of the index file
IndexFileTerms(file) == {Split(Strip(file[k]), "\t")[1] : k \in 1..Len(file)}

CompressOptions == {None, <<"block">>, <<"front">>, <<"string">>}

\* lines 165-213 of index_command: compress is args.compress, <<>> for None;
\* open(output_file) raises FileNotFoundError when the merge wrote no file
finish_index(file, compress) ==
    IF compress = None THEN [exit |-> 0, dict_file |-> <<>>]
    ELSE IF file = NoFile THEN [exit |-> 1, dict_file |-> <<>>]
    ELSE LET terms == SortedSet(IndexFileTerms(file[1]))
             saved == CASE compress[1] = "block" ->
                               blocking_save(blocking_compress(
                                   NewBlockingCompressor(DefaultBlockSize), terms))
                        [] compress[1] = "front" ->
                               front_save(front_compress(NewFrontCodingCompressor, terms))
                        [] compress[1] = "string" ->
                               string_save(string_build(NewStringCompressor, terms))
         IN  [exit |-> 0, dict_file |-> <<compress[1], saved>>]

FinishIndex ==
    /\ pc = "merged"
    /\ \E compress \in CompressOptions :
          LET r == finish_index(output_file, compress)
          IN  /\ ix_compress' = compress
              /\ dict_file' = r.dict_file
              /\ ix_exit' = <<r.exit>>
    /\ pc' = "done"
    /\ UNCHANGED <<block_size, dictionary, token_count, block_counter, flush_times,
                   block_files, output_file, stream, merged_blocks, temp_dir, calls,
                   plvars, qvars, cvars>>

\* the run of index_command
Next == AddToken \/ TerminalFlush \/ MergeBlocks \/ FinishIndex

Spec == Init /\ [][Next]_vars

\* the indexer under a caller that also calls flush_block itself
NextCalls == AddToken \/ FlushBlock \/ TerminalFlush \/ MergeBlocks

SpecCalls == Init /\ [][NextCalls]_vars

\* C27: when no token was added, so that block_counter is 0 at the merge,
\* merge_blocks leaves the disk as it was: no final index file, and the
\* temp_blocks directory of the constructor still there; index_command run
\* with --compress then exits 1 on opening the missing index file, and writes
\* no dictionary.
C27_EmptyBuildWritesNothing ==
    /\ (pc \in {"merged", "done"} /\ block_counter = 0) =>
          /\ output_file = NoFile
          /\ temp_dir = TRUE
          /\ block_files = NoFiles
          /\ merged_blocks = <<>>
    /\ (pc = "done" /\ block_counter = 0 /\ ix_compress # None) =>
          /\ ix_exit = <<1>>
          /\ dict_file = <<>>

\* C27 witness: index_command ran to its end with --compress front on a
\* corpus without tokens.
C27_Witness ==
    /\ pc = "done" /\ stream = <<>> /\ block_counter = 0
    /\ calls = <<"merge_blocks">>
    /\ ix_compress = <<"front">>
    /\ ix_exit = <<1>>
    /\ temp_dir = TRUE /\ output_file = NoFile

(***************************************************************************)
(* Claims about stop words and about double negation.                      *)
(***************************************************************************)
\* terms as typed in a query: indexed or not, with digits, a stop word
TypedTerms == {<<"B", "1">>, <<"c">>, <<"a">>} \cup PostfixTerms
\* the stop words of the installation, typed in lower or in upper case
TypedStopWords == InstalledStopWords \cup {StrUpper(w) : w \in InstalledStopWords}
Bin(l, op, r) == l \o Sp \o op \o Sp \o r
Q(query) == process_query_with(InstalledStopWords, query, q_index)

\* the four queries of C15 for a stop word S and a term X give what X gives
StopWordOperandHasNoEffect(S, X) ==
    /\ Q(Bin(S, AND, X)) = Q(X)
    /\ Q(Bin(X, AND, S)) = Q(X)
    /\ Q(Bin(S, OR, X)) = Q(X)
    /\ Q(Bin(X, OR, S)) = Q(X)

\* a processed query is one of the four queries for S and X (such a query has
\* three tokens at most after tokenize_query)
IsStopWordQuery(S, X) ==
    q_query \in {Bin(S, AND, X), Bin(X, AND, S), Bin(S, OR, X), Bin(X, OR, S)}

\* C15: for every term X and every stop word S, the queries S AND X, X AND S,
\* S OR X and X OR S evaluate to the same set as the query X.
C15_StopWordOperand ==
    /\ pc = "q_loaded" =>
          \A S \in TypedStopWords, X \in TypedTerms : StopWordOperandHasNoEffect(S, X)
    /\ (pc = "q_done" /\ Len(q_tokens) <= 3) =>
          \A S \in TypedStopWords, X \in TypedTerms :
              IsStopWordQuery(S, X) => q_result = Q(X)

\* NOT NOT A as typed
NotNot(A) == NOT \o Sp \o NOT \o Sp \o A

\* C16: for every term A, indexed or absent from the index, NOT NOT A evaluates
\* to the same set as A; to_postfix keeps the two NOT after the term.
C16_DoubleNegation ==
    /\ pc = "q_loaded" =>
          \A A \in TypedTerms :
              /\ Q(NotNot(A)) = Q(A)
              /\ to_postfix(tokenize_query_with(InstalledStopWords, NotNot(A))) =
                    tokenize_query_with(InstalledStopWords, A) \o <<NOT, NOT>>
    /\ pc = "q_done" =>
          \A A \in TypedTerms : q_query = NotNot(A) => q_result = Q(A)

\* C16 witness: NOT NOT c was processed on an index where the posting set of c
\* is neither empty nor the Universe.
C16_Witness ==
    /\ pc = "q_done"
    /\ q_query = NotNot(<<"c">>)
    /\ q_postfix = <<<<"c">>, NOT, NOT>>
    /\ q_result = I(<<"c">>) /\ q_result # {} /\ q_result # AllDocs(q_index)

====
